---- MODULE Spec2Model ----
(***************************************************************************)
(* A model of the tenbagger screening core:                                *)
(*   - lib/fetchers.ts : HTTP helpers, the three provider adapters and the *)
(*     fallback orchestrator fetchFundamentals            (specification   *)
(*     Spec);                                                              *)
(*   - lib/scoring.ts  : scoreCompany, its timeline and its ten rules      *)
(*     (specification SpecScore).                                          *)
(* Numbers of the scoring engine are exact rationals <<n, d>>; <<0, 0>>    *)
(* stands for NaN / undefined.                                             *)
(***************************************************************************)
EXTENDS Integers, Sequences, FiniteSets, TLC

VARIABLES
    env,             \* process.env: which credentials are configured
    secTickerCache,  \* module-level cache of the SEC ticker table
    pc,              \* where the running fetchFundamentals call is
    pending,         \* HTTP requests of the running adapter still in flight
    got,             \* payloads the running adapter has received so far
    errors,          \* fetchFundamentals' local list of error messages
    started,         \* history: handlers invoked by the orchestrator, in order
    settled,         \* history: how each handler's promise settled
    outcome,         \* how the fetchFundamentals promise settled
    calls,           \* number of fetchFundamentals calls made so far
    input,           \* scoreCompany: the Fundamentals passed in, and "today"
    result,          \* scoreCompany: what the call returned
    http             \* the last exchange the HTTP helpers were tried on

fetchVars == <<env, secTickerCache, pc, pending, got, errors, started, settled,
               outcome, calls>>
scoreVars == <<input, result>>
vars == <<env, secTickerCache, pc, pending, got, errors, started, settled,
          outcome, calls, input, result, http>>

(***************************************************************************)
(* Bounds of the model.                                                    *)
(***************************************************************************)
MaxCalls == 2

(***************************************************************************)
(* Errors.                                                                 *)
(***************************************************************************)
\* recoverable is "true", "false" or "undefined" (a thrown value that is not a
\* ProviderError has no such property); JavaScript reads only "true" as truthy.
Truthy(flag) == flag = "true"

NoError == [provider |-> "", recoverable |-> "undefined", reason |-> "", message |-> <<>>]

createProviderError(provider, message, recoverable, reason) ==
    [provider |-> provider, recoverable |-> recoverable, reason |-> reason,
     message |-> <<"[", provider, "] ">> \o message]

\* An exception of the runtime (TypeError and the like): an Error with a message
\* and no provider, recoverable or reason property.
RuntimeError(message) ==
    [provider |-> "undefined", recoverable |-> "undefined", reason |-> "undefined",
     message |-> <<message>>]

Ok(payload) == [ok |-> TRUE, payload |-> payload, error |-> NoError]
Thrown(error) == [ok |-> FALSE, payload |-> <<>>, error |-> error]

(***************************************************************************)
(* HTTP responses.  A JSON document is described by what the adapters read *)
(* of it.                                                                  *)
(*   type : "null" (the payload of an empty body), "scalar", "object",     *)
(*          "array"                                                        *)
(*   err  : the document carries the provider's error field                *)
(*          ("Error Message" for FMP, error for Finnhub)                   *)
(*   has  : the expected container is there (facts, data)                  *)
(*   n    : number of rows / reports / quarters / table entries            *)
(*   mc   : a numeric market-capitalisation field is there                 *)
(*   cf   : every row carries capex and operating cash flow                *)
(*   sym  : the ticker table lists the requested symbol                    *)
(*   nul  : the first row of the array is the JSON value null              *)
(***************************************************************************)
Doc(type, err, has, n, mc, cf, sym, nul) ==
    [type |-> type, err |-> err, has |-> has, n |-> n, mc |-> mc, cf |-> cf,
     sym |-> sym, nul |-> nul]

NullDoc  == Doc("null",   FALSE, FALSE, 0, FALSE, FALSE, FALSE, FALSE)
Scalar   == Doc("scalar", FALSE, FALSE, 0, FALSE, FALSE, FALSE, FALSE)
ErrObj   == Doc("object", TRUE,  FALSE, 0, FALSE, FALSE, FALSE, FALSE)
EmptyObj == Doc("object", FALSE, FALSE, 0, FALSE, FALSE, FALSE, FALSE)
EmptyArr == Doc("array",  FALSE, FALSE, 0, FALSE, FALSE, FALSE, FALSE)

GenericDocs == {Scalar, ErrObj, EmptyObj, EmptyArr}

\* Well-formed documents of each endpoint.
TickerDocs    == {Doc("object", FALSE, TRUE, 1, FALSE, FALSE, s, FALSE) : s \in BOOLEAN}
FactsDocs     == {Doc("object", FALSE, TRUE, k, FALSE, c, FALSE, FALSE) :
                    k \in {0, 4, 8}, c \in BOOLEAN}
ProfileDocs   == {Doc("object", FALSE, TRUE, 0, TRUE, FALSE, FALSE, FALSE)}
ReportDocs    == {Doc("object", FALSE, TRUE, k, FALSE, c, FALSE, FALSE) :
                    k \in {3, 4}, c \in BOOLEAN}
StatementDocs == {Doc("array", FALSE, TRUE, 3, FALSE, TRUE, FALSE, FALSE),
                  Doc("array", FALSE, TRUE, 4, FALSE, TRUE, FALSE, FALSE),
                  Doc("array", FALSE, TRUE, 5, FALSE, TRUE, FALSE, TRUE)}
QuoteDocs     == {Doc("array", FALSE, TRUE, 1, TRUE, FALSE, FALSE, FALSE)}

Statuses == {200, 401, 403, 404, 429, 500}

\* net  : the fetch() promise resolved (FALSE: it rejected, no response)
\* read : response.text() resolved (FALSE: the connection broke mid-body)
\* text : "empty", "nonjson" or "json" (then doc is the parsed document)
Response(net, read, status, text, doc) ==
    [net |-> net, read |-> read, status |-> status, text |-> text, doc |-> doc]

\* Every response the HTTP helpers are tried on (specification SpecHttp).
AllResponses ==
    {Response(FALSE, FALSE, 200, "empty", NullDoc)}
    \cup {Response(TRUE, FALSE, s, "empty", NullDoc) : s \in Statuses}
    \cup {Response(TRUE, TRUE, s, "empty", NullDoc) : s \in Statuses}
    \cup {Response(TRUE, TRUE, s, "nonjson", NullDoc) : s \in Statuses}
    \cup {Response(TRUE, TRUE, s, "json", d) : s \in Statuses,
                                               d \in GenericDocs \cup ProfileDocs \cup QuoteDocs}

\* The responses an endpoint of the adapters is tried on: every failure of the
\* exchange, every error status with an empty, unparsable or error-object body,
\* and status 200 with every document the endpoint may send.
Responses(docs) ==
    {Response(FALSE, FALSE, 200, "empty", NullDoc),
     Response(TRUE, FALSE, 200, "empty", NullDoc)}
    \cup {Response(TRUE, TRUE, s, "empty", NullDoc) : s \in {200, 403, 404, 429}}
    \cup {Response(TRUE, TRUE, s, "nonjson", NullDoc) : s \in {200, 429}}
    \cup {Response(TRUE, TRUE, s, "json", ErrObj) : s \in {403, 404, 429}}
    \cup {Response(TRUE, TRUE, 200, "json", d) : d \in GenericDocs \cup docs}

\* fetchJson(url, provider): the helper of the FMP and Finnhub requests.
fetchJson(provider, r) ==
    IF ~r.net
      THEN Thrown(createProviderError(provider, <<"network error">>, "true", "network"))
    ELSE IF ~r.read
      THEN Thrown(RuntimeError("body stream failed"))
    ELSE IF r.text = "nonjson"
      THEN Thrown(createProviderError(provider, <<"cannot parse JSON">>, "true", "parse"))
    ELSE IF r.status = 429
      THEN Thrown(createProviderError(provider, <<"quota used up (HTTP 429)">>, "true", "quota"))
    ELSE IF r.status = 401 \/ r.status = 403
      THEN Thrown(createProviderError(provider, <<"HTTP " \o ToString(r.status) \o " not authorised">>,
                                      "true", "unauthorized"))
    ELSE IF r.status >= 400
      THEN Thrown(createProviderError(provider, <<"HTTP " \o ToString(r.status)>>, "true",
                                      "http-" \o ToString(r.status)))
    ELSE Ok(IF r.text = "empty" THEN NullDoc ELSE r.doc)

\* fetchJsonWithHeaders(url, headers): the helper of the SEC requests.
fetchJsonWithHeaders(r) ==
    IF ~r.net
      THEN Thrown(createProviderError("SEC", <<"network error">>, "true", "network"))
    ELSE IF ~r.read
      THEN Thrown(RuntimeError("body stream failed"))
    ELSE IF r.text = "nonjson"
      THEN Thrown(createProviderError("SEC", <<"cannot parse JSON">>, "true", "parse"))
    ELSE IF r.status = 429
      THEN Thrown(createProviderError("SEC", <<"SEC quota (HTTP 429)">>, "true", "quota"))
    ELSE IF r.status >= 400
      THEN Thrown(createProviderError("SEC", <<"HTTP " \o ToString(r.status)>>, "true",
                                      "http-" \o ToString(r.status)))
    ELSE Ok(IF r.text = "empty" THEN NullDoc ELSE r.doc)

(***************************************************************************)
(* Fundamentals as the adapters build them.  A quarter is kept as its      *)
(* period (a larger number is a later period end; row k of a payload has   *)
(* period -k) and cf, whether capex and operating cash flow are finite.    *)
(***************************************************************************)
Fundamentals(ticker, marketCap, quarters) ==
    [ticker |-> ticker, marketCap |-> marketCap, quarters |-> quarters]

NoFundamentals == Fundamentals("", 0, <<>>)

Symbol == "NVDA"

Max(S) == CHOOSE x \in S : \A y \in S : y <= x

RECURSIVE SortDesc(_)
SortDesc(S) == IF S = {} THEN <<>> ELSE <<Max(S)>> \o SortDesc(S \ {Max(S)})

Take(seq, k) == SubSeq(seq, 1, IF Len(seq) < k THEN Len(seq) ELSE k)

\* The periods the rows of a statement document patch into byDate: a null row
\* has no date, so applyPatch returns at once.
RowPeriods(doc) == {0 - k : k \in (IF doc.nul THEN 2 ELSE 1) .. doc.n}

\* finalizeQuarters(byDate): most recent first, at most 8.
finalizeQuarters(periods, cfPeriods) ==
    LET sorted == Take(SortDesc(periods), 8)
    IN  [i \in 1 .. Len(sorted) |-> [period |-> sorted[i], cf |-> sorted[i] \in cfPeriods]]

\* mergeData(endpoint) and the quote request of fetchFromFmp, after fetchJson.
FmpArray(doc, message) ==
    IF doc.err THEN Thrown(createProviderError("FMP", <<"Error Message">>, "true", "quota"))
    ELSE IF doc.type # "array"
      THEN Thrown(createProviderError("FMP", <<message>>, "true", "invalid-format"))
    ELSE Ok(doc)

\* fetchFromFmp after Promise.all: the three merge loops and the final checks.
FmpBuild(income, balance, cashflow, quote) ==
    IF income.nul THEN Thrown(RuntimeError("cannot read properties of null"))
    ELSE
      LET periods  == RowPeriods(income) \cup RowPeriods(cashflow) \cup RowPeriods(balance)
          quarters == finalizeQuarters(periods,
                                       IF cashflow.cf THEN RowPeriods(cashflow) ELSE {})
      IN  IF ~(quote.n >= 1 /\ quote.mc)
            THEN Thrown(createProviderError("FMP", <<"no market cap">>, "true", "missing-market-cap"))
          ELSE IF Len(quarters) < 4
            THEN Thrown(createProviderError("FMP", <<"fewer than four quarters">>, "true",
                                            "insufficient-data"))
          ELSE Ok(Fundamentals(Symbol, 5, quarters))

\* fetchFinnhubReports / fetchFinnhubProfile, after fetchJson.
fetchFinnhubReports(doc) ==
    IF doc.err THEN Thrown(createProviderError("Finnhub", <<"error">>, "true", "quota"))
    ELSE IF ~(doc.type = "object" /\ doc.has)
      THEN Thrown(createProviderError("Finnhub", <<"unexpected reports format">>, "true",
                                      "invalid-format"))
    ELSE Ok(doc)

fetchFinnhubProfile(doc) ==
    IF doc.err THEN Thrown(createProviderError("Finnhub", <<"error">>, "true", "quota"))
    ELSE IF doc.type \notin {"object", "array"}
      THEN Thrown(createProviderError("Finnhub", <<"unexpected profile format">>, "true",
                                      "invalid-format"))
    ELSE Ok(doc)

\* fetchFromFinnhub after Promise.all: the report loop and the final checks.
FinnhubBuild(reports, profile) ==
    LET periods  == {0 - k : k \in 1 .. reports.n}
        quarters == finalizeQuarters(periods, IF reports.cf THEN periods ELSE {})
    IN  IF ~profile.mc
          THEN Thrown(createProviderError("Finnhub", <<"no market cap">>, "true",
                                          "missing-market-cap"))
        ELSE IF Len(quarters) < 4
          THEN Thrown(createProviderError("Finnhub", <<"fewer than four quarters">>, "true",
                                          "insufficient-data"))
        ELSE Ok(Fundamentals(Symbol, 5 * 1000000, quarters))

\* loadSecTickerCache after the download: the table built from the payload.
SecTickerMap(doc) ==
    IF doc.type \in {"object", "array"} /\ doc.has /\ doc.n > 0
      THEN [loaded |-> TRUE, sym |-> doc.sym]
      ELSE [loaded |-> FALSE, sym |-> FALSE]

\* fetchFromSec between the facts download and the market-cap request.
SecQuarters(doc) ==
    [i \in 1 .. (IF doc.n < 12 THEN doc.n ELSE 12) |-> [period |-> 0 - i, cf |-> doc.cf]]

SecFactsCheck(doc, finnhubKey) ==
    IF ~(doc.type = "object" /\ doc.has)
      THEN Thrown(createProviderError("SEC", <<"no company facts">>, "true", "empty-facts"))
    ELSE IF doc.n = 0
      THEN Thrown(createProviderError("SEC", <<"no quarterly revenue">>, "true", "missing-revenue"))
    ELSE IF Len(SecQuarters(doc)) < 8
      THEN Thrown(createProviderError("SEC", <<"fewer than eight quarters">>, "true",
                                      "insufficient-data"))
    ELSE IF ~finnhubKey
      THEN Thrown(createProviderError("SEC", <<"FINNHUB_API_KEY not set">>, "true",
                                      "missing-marketcap"))
    ELSE Ok(doc)

needsSupplement(doc) == \E i \in DOMAIN SecQuarters(doc) : ~SecQuarters(doc)[i].cf

\* fetchFromSec after the try block: the market-cap check and the back-fill of
\* capex and ocf from finnhubFallback (NoFundamentals stands for null).
SecBuild(facts, profile, finnhubFallback) ==
    IF ~(profile.ok /\ profile.payload.mc)
      THEN Thrown(createProviderError("SEC", <<"no market cap from Finnhub">>, "true",
                                      "missing-marketcap"))
    ELSE
      LET valid    == SecQuarters(facts)
          fb       == finnhubFallback.quarters
          filled   == {fb[j].period : j \in {j \in DOMAIN fb : fb[j].cf}}
          quarters == [i \in DOMAIN valid |->
                         [period |-> valid[i].period,
                          cf |-> valid[i].cf \/ (needsSupplement(facts)
                                                 /\ valid[i].period \in filled)]]
      IN  Ok(Fundamentals(Symbol, 5 * 1000000, quarters))

(***************************************************************************)
(* fetchFundamentals: the fallback orchestrator.                           *)
(***************************************************************************)
\* Mutant of providers: the two first handlers swapped.
providersSwapped == <<"FMP", "SEC", "Finnhub">>

providers == <<"SEC", "FMP", "Finnhub">>

Unsettled == [kind |-> "pending", value |-> NoFundamentals, error |-> NoError]
NoOutcome == [kind |-> "none", value |-> NoFundamentals, error |-> NoError]

\* errors.join(delimiter) over messages that are token sequences.
RECURSIVE Join(_, _)
Join(msgs, delimiter) ==
    IF msgs = <<>> THEN <<>>
    ELSE IF Len(msgs) = 1 THEN msgs[1]
    ELSE msgs[1] \o <<delimiter>> \o Join(Tail(msgs), delimiter)

\* Mutant of Exhausted: only the last provider's message is kept.
ExhaustedLastOnly(msgs) ==
    createProviderError("DATA", <<"all providers failed: ">> \o msgs[Len(msgs)], "false",
                        "exhausted")

\* The error thrown after the loop.
Exhausted(msgs) ==
    LET aggregate == IF Len(msgs) > 0
                       THEN <<"all providers failed: ">> \o Join(msgs, "|")
                       ELSE <<"all providers failed.">>
    IN  createProviderError("DATA", aggregate, "false", "exhausted")

\* Mutant of Return: the quarters are cut to the four latest on the way out.
ReturnTruncated(name, value) ==
    /\ outcome' = [kind |-> "value",
                   value |-> [value EXCEPT !.quarters = Take(value.quarters, 4)],
                   error |-> NoError]
    /\ pc' = "returned"
    /\ UNCHANGED errors

\* `return await provider.handler(symbol)`: the handler fulfilled.
Return(name, value) ==
    /\ outcome' = [kind |-> "value", value |-> value, error |-> NoError]
    /\ pc' = "returned"
    /\ UNCHANGED errors

\* Mutant of Catch: the recoverable flag is not looked at, every failure falls
\* back to the next provider.
CatchAlwaysFallsBack(name, err) ==
    /\ errors' = Append(errors, err.message)
    /\ IF Len(started') < 3
         THEN /\ outcome' = outcome
              /\ pc' = "invoke"
         ELSE /\ outcome' = [kind |-> "error", value |-> NoFundamentals,
                             error |-> createProviderError("DATA",
                                 <<"all providers failed: ">> \o Join(errors', "|"),
                                 "false", "exhausted")]
              /\ pc' = "thrown"

\* The catch block of the loop, and the loop's next turn or its end.
Catch(name, err) ==
    /\ errors' = Append(errors, err.message)
    /\ IF ~Truthy(err.recoverable)
         THEN /\ outcome' = [kind |-> "error", value |-> NoFundamentals, error |-> err]
              /\ pc' = "thrown"
         ELSE IF Len(started') < Len(providers)
           THEN /\ outcome' = outcome
                /\ pc' = "invoke"
           ELSE /\ outcome' = [kind |-> "error", value |-> NoFundamentals,
                               error |-> Exhausted(errors')]
                /\ pc' = "thrown"

\* Handler `name` settled with `res` (Ok or Thrown): the history records it and
\* the awaiting loop goes on.
Settle(name, res) ==
    IF res.ok
      THEN /\ settled' = [settled EXCEPT ![name] = [kind |-> "fulfilled", value |-> res.payload,
                                                    error |-> NoError]]
           /\ Return(name, res.payload)
      ELSE /\ settled' = [settled EXCEPT ![name] = [kind |-> "rejected",
                                                    value |-> NoFundamentals,
                                                    error |-> res.error]]
           /\ Catch(name, res.error)

\* export async function fetchFundamentals(ticker)
FetchFundamentals ==
    /\ pc \in {"idle", "returned", "thrown"}
    /\ calls < MaxCalls
    /\ calls' = calls + 1
    /\ pc' = "invoke"
    /\ errors' = <<>>
    /\ started' = <<>>
    /\ settled' = [p \in {"SEC", "FMP", "Finnhub"} |-> Unsettled]
    /\ outcome' = NoOutcome
    /\ pending' = {}
    /\ got' = <<>>
    /\ UNCHANGED <<env, secTickerCache, input, result, http>>

\* The provider the loop invokes next.
Current == providers[Len(started) + 1]

(***************************************************************************)
(* fetchFromSec, one action per await.                                     *)
(***************************************************************************)
MissingUserAgent ==
    createProviderError("SEC", <<"SEC_USER_AGENT not set">>, "true", "missing-user-agent")

UnknownTicker ==
    createProviderError("SEC", <<"no CIK for ticker">>, "true", "unknown-ticker")

\* getCikForTicker / loadSecTickerCache up to the first await (or the throw).
SecStart ==
    /\ pc = "invoke" /\ Current = "SEC"
    /\ started' = Append(started, "SEC")
    /\ pending' = {} /\ got' = <<>>
    /\ IF secTickerCache.loaded
         THEN IF ~secTickerCache.sym THEN Settle("SEC", Thrown(UnknownTicker))
              ELSE IF ~env.ua THEN Settle("SEC", Thrown(MissingUserAgent))
              ELSE /\ pc' = "SEC:facts"
                   /\ UNCHANGED <<errors, settled, outcome>>
         ELSE IF ~env.ua THEN Settle("SEC", Thrown(MissingUserAgent))
              ELSE /\ pc' = "SEC:tickers"
                   /\ UNCHANGED <<errors, settled, outcome>>
    /\ UNCHANGED <<env, secTickerCache, calls, input, result, http>>

\* loadSecTickerCache from the download on, then getCikForTicker and the start of
\* fetchCompanyFacts.
SecTickers ==
    /\ pc = "SEC:tickers"
    /\ UNCHANGED <<env, pending, got, started, calls, input, result, http>>
    /\ \E r \in Responses(TickerDocs) :
         LET res == fetchJsonWithHeaders(r)
             map == SecTickerMap(res.payload)
         IN  IF ~res.ok
               THEN Settle("SEC", Thrown(res.error)) /\ UNCHANGED secTickerCache
             ELSE IF ~map.loaded
               THEN /\ Settle("SEC", Thrown(createProviderError("SEC", <<"ticker table empty">>,
                                                        "true", "ticker-list-empty")))
                    /\ UNCHANGED secTickerCache
             ELSE /\ secTickerCache' = map
                  /\ IF ~map.sym THEN Settle("SEC", Thrown(UnknownTicker))
                     ELSE /\ pc' = "SEC:facts"
                          /\ UNCHANGED <<errors, settled, outcome>>

\* fetchCompanyFacts resolves; collectFactSeries, buildQuarterRecords and the
\* checks up to the market-cap request.
SecFacts ==
    /\ pc = "SEC:facts"
    /\ UNCHANGED <<env, secTickerCache, pending, started, calls, input, result, http>>
    /\ \E r \in Responses(FactsDocs) :
         LET res   == fetchJsonWithHeaders(r)
             check == IF res.ok THEN SecFactsCheck(res.payload, env.fh) ELSE res
         IN  IF ~check.ok
               THEN Settle("SEC", Thrown(check.error)) /\ UNCHANGED got
               ELSE /\ got' = ("facts" :> check.payload)
                    /\ pc' = "SEC:profile"
                    /\ UNCHANGED <<errors, settled, outcome>>

\* The try block: fetchFinnhubProfile resolves; whatever it throws is rethrown
\* as a recoverable SEC error.
SecProfile ==
    /\ pc = "SEC:profile"
    /\ UNCHANGED <<env, secTickerCache, started, calls, input, result, http>>
    /\ \E r \in Responses(ProfileDocs) :
         LET res  == fetchJson("Finnhub", r)
             prof == IF res.ok THEN fetchFinnhubProfile(res.payload) ELSE res
         IN  IF ~prof.ok
               THEN /\ Settle("SEC", Thrown(createProviderError("SEC", <<"no market cap from Finnhub">>,
                                                        "true", "missing-marketcap")))
                    /\ UNCHANGED <<got, pending>>
             ELSE IF needsSupplement(got["facts"])
               THEN /\ got' = got @@ ("profile" :> prof.payload)
                    /\ pending' = {"sup.reports", "sup.profile"}
                    /\ pc' = "SEC:supplement"
                    /\ UNCHANGED <<errors, settled, outcome>>
             ELSE /\ Settle("SEC", SecBuild(got["facts"], prof, NoFundamentals))
                  /\ UNCHANGED <<got, pending>>

\* The nested fetchFromFinnhub(symbol): one of its two requests resolves.  Its
\* failure is logged and swallowed.
SecSupplement ==
    /\ pc = "SEC:supplement"
    /\ UNCHANGED <<env, secTickerCache, started, calls, input, result, http>>
    /\ \E req \in pending :
       \E r \in Responses(IF req = "sup.reports" THEN ReportDocs ELSE ProfileDocs) :
         LET res  == fetchJson("Finnhub", r)
             part == IF ~res.ok THEN res
                     ELSE IF req = "sup.reports" THEN fetchFinnhubReports(res.payload)
                     ELSE fetchFinnhubProfile(res.payload)
             all  == got @@ (req :> part.payload)
             fb   == FinnhubBuild(all["sup.reports"], all["sup.profile"])
             mine == Ok(got["profile"])
         IN  IF ~part.ok
               THEN /\ Settle("SEC", SecBuild(got["facts"], mine, NoFundamentals))
                    /\ pending' = {} /\ got' = got
             ELSE IF pending = {req}
               THEN /\ Settle("SEC", SecBuild(got["facts"], mine,
                                              IF fb.ok THEN fb.payload ELSE NoFundamentals))
                    /\ pending' = {} /\ got' = got
             ELSE /\ got' = all
                  /\ pending' = pending \ {req}
                  /\ UNCHANGED <<pc, errors, settled, outcome>>

(***************************************************************************)
(* fetchFromFmp.                                                           *)
(***************************************************************************)
FmpStart ==
    /\ pc = "invoke" /\ Current = "FMP"
    /\ started' = Append(started, "FMP")
    /\ got' = <<>>
    /\ IF ~env.fmp
         THEN /\ Settle("FMP", Thrown(createProviderError("FMP", <<"FMP_API_KEY not set">>, "true",
                                                  "missing-key")))
              /\ pending' = {}
         ELSE /\ pending' = {"income", "balance", "cashflow", "quote"}
              /\ pc' = "FMP:requests"
              /\ UNCHANGED <<errors, settled, outcome>>
    /\ UNCHANGED <<env, secTickerCache, calls, input, result, http>>

\* One request of the Promise.all resolves, in any order; the first rejection
\* rejects the handler (the requests still in flight are not cancelled and are
\* never looked at again), the last fulfilment lets it merge and finish.
FmpResponse ==
    /\ pc = "FMP:requests"
    /\ UNCHANGED <<env, secTickerCache, started, calls, input, result, http>>
    /\ \E req \in pending :
       \E r \in Responses(IF req = "quote" THEN QuoteDocs ELSE StatementDocs) :
         LET res  == fetchJson("FMP", r)
             part == IF ~res.ok THEN res
                     ELSE FmpArray(res.payload, IF req = "quote" THEN "unexpected quote format"
                                                ELSE "unexpected format: " \o req)
             all  == got @@ (req :> part.payload)
         IN  IF ~part.ok
               THEN /\ Settle("FMP", Thrown(part.error))
                    /\ pending' = {} /\ got' = <<>>
             ELSE IF pending = {req}
               THEN /\ Settle("FMP", FmpBuild(all["income"], all["balance"], all["cashflow"],
                                              all["quote"]))
                    /\ pending' = {} /\ got' = <<>>
             ELSE /\ got' = all
                  /\ pending' = pending \ {req}
                  /\ UNCHANGED <<pc, errors, settled, outcome>>

(***************************************************************************)
(* fetchFromFinnhub.                                                       *)
(***************************************************************************)
FinnhubStart ==
    /\ pc = "invoke" /\ Current = "Finnhub"
    /\ started' = Append(started, "Finnhub")
    /\ got' = <<>>
    /\ IF ~env.fh
         THEN /\ Settle("Finnhub", Thrown(createProviderError("Finnhub", <<"FINNHUB_API_KEY not set">>,
                                                      "true", "missing-key")))
              /\ pending' = {}
         ELSE /\ pending' = {"reports", "profile"}
              /\ pc' = "Finnhub:requests"
              /\ UNCHANGED <<errors, settled, outcome>>
    /\ UNCHANGED <<env, secTickerCache, calls, input, result, http>>

FinnhubResponse ==
    /\ pc = "Finnhub:requests"
    /\ UNCHANGED <<env, secTickerCache, started, calls, input, result, http>>
    /\ \E req \in pending :
       \E r \in Responses(IF req = "reports" THEN ReportDocs ELSE ProfileDocs) :
         LET res  == fetchJson("Finnhub", r)
             part == IF ~res.ok THEN res
                     ELSE IF req = "reports" THEN fetchFinnhubReports(res.payload)
                     ELSE fetchFinnhubProfile(res.payload)
             all  == got @@ (req :> part.payload)
         IN  IF ~part.ok
               THEN /\ Settle("Finnhub", Thrown(part.error))
                    /\ pending' = {} /\ got' = <<>>
             ELSE IF pending = {req}
               THEN /\ Settle("Finnhub", FinnhubBuild(all["reports"], all["profile"]))
                    /\ pending' = {} /\ got' = <<>>
             ELSE /\ got' = all
                  /\ pending' = pending \ {req}
                  /\ UNCHANGED <<pc, errors, settled, outcome>>

NoExchange == [done |-> FALSE, provider |-> "", response |-> Response(FALSE, FALSE, 200, "empty", NullDoc),
               result |-> Ok(NullDoc)]
NoInput  == [today |-> [mi |-> 0, day |-> 0],
             f |-> [ticker |-> "", marketCap |-> <<0, 0>>, quarters |-> <<>>]]
NoResult == [done |-> FALSE]

Init ==
    /\ env \in [ua : BOOLEAN, fmp : BOOLEAN, fh : BOOLEAN]
    /\ secTickerCache = [loaded |-> FALSE, sym |-> FALSE]
    /\ pc = "idle"
    /\ pending = {}
    /\ got = <<>>
    /\ errors = <<>>
    /\ started = <<>>
    /\ settled = [p \in {"SEC", "FMP", "Finnhub"} |-> Unsettled]
    /\ outcome = NoOutcome
    /\ calls = 0
    /\ input = NoInput
    /\ result = NoResult
    /\ http = NoExchange

Next ==
    \/ FetchFundamentals
    \/ SecStart
    \/ SecTickers
    \/ SecFacts
    \/ SecProfile
    \/ SecSupplement
    \/ FmpStart
    \/ FmpResponse
    \/ FinnhubStart
    \/ FinnhubResponse

Spec == Init /\ [][Next]_vars

(***************************************************************************)
(* The HTTP helpers on their own: every provider family on every response. *)
(***************************************************************************)
\* SEC requests go through fetchJsonWithHeaders, FMP and Finnhub requests
\* through fetchJson(url, provider).
HttpHelper(provider, r) ==
    IF provider = "SEC" THEN fetchJsonWithHeaders(r) ELSE fetchJson(provider, r)

Exchange ==
    /\ \E provider \in {"SEC", "FMP", "Finnhub"} :
       \E r \in AllResponses :
         http' = [done |-> TRUE, provider |-> provider, response |-> r,
                  result |-> HttpHelper(provider, r)]
    /\ UNCHANGED <<env, secTickerCache, pc, pending, got, errors, started, settled,
                   outcome, calls, input, result>>

InitHttp ==
    /\ env = [ua |-> TRUE, fmp |-> TRUE, fh |-> TRUE]
    /\ secTickerCache = [loaded |-> FALSE, sym |-> FALSE]
    /\ pc = "idle"
    /\ pending = {}
    /\ got = <<>>
    /\ errors = <<>>
    /\ started = <<>>
    /\ settled = [p \in {"SEC", "FMP", "Finnhub"} |-> Unsettled]
    /\ outcome = NoOutcome
    /\ calls = 0
    /\ input = NoInput
    /\ result = NoResult
    /\ http = NoExchange

NextHttp == Exchange

SpecHttp == InitHttp /\ [][NextHttp]_vars

(***************************************************************************)
(* Properties of fetchFundamentals (specification Spec).                   *)
(***************************************************************************)
Order == <<"SEC", "FMP", "Finnhub">>

Rejected(p)    == settled[p].kind = "rejected"
Fulfilled(p)   == settled[p].kind = "fulfilled"
Recoverable(p) == Rejected(p) /\ Truthy(settled[p].error.recoverable)

\* C1: when handler k fulfils after every handler before it rejected with a
\* recoverable error, fetchFundamentals fulfils with exactly the value handler k
\* produced, and raises nothing.
C1_FirstSuccessIsReturned ==
    \A k \in 1 .. 3 :
        (Fulfilled(Order[k]) /\ \A j \in 1 .. k - 1 : Recoverable(Order[j]))
        => /\ pc = "returned"
           /\ outcome.kind = "value"
           /\ outcome.value = settled[Order[k]].value
           /\ outcome.error = NoError

\* The spec's example: SEC fails "quota", FMP fails "missing-key", Finnhub succeeds.
C1_Witness ==
    /\ Rejected("SEC") /\ settled["SEC"].error.reason = "quota"
    /\ Rejected("FMP") /\ settled["FMP"].error.reason = "missing-key"
    /\ Fulfilled("Finnhub")
    /\ pc = "returned"
    /\ Len(outcome.value.quarters) >= 4

C3_FatalErrorPropagates ==
    \A p \in {"SEC", "FMP", "Finnhub"} :
        (Rejected(p) /\ ~Truthy(settled[p].error.recoverable))
        => /\ pc = "thrown"
           /\ outcome.kind = "error"
           /\ outcome.error = settled[p].error
           /\ outcome.error.reason # "exhausted"
           /\ started[Len(started)] = p

C3_Witness ==
    /\ Rejected("FMP") /\ ~Truthy(settled["FMP"].error.recoverable)
    /\ pc = "thrown"
    /\ started = <<"SEC", "FMP">>

\* C4: when the three handlers all reject with recoverable errors, the outcome is
\* one error with reason "exhausted" and recoverable false whose message holds
\* the three messages in handler order, joined by the delimiter.
C4_ExhaustedAggregate ==
    (\A p \in {"SEC", "FMP", "Finnhub"} : Recoverable(p))
    => /\ pc = "thrown"
       /\ outcome.kind = "error"
       /\ outcome.error.reason = "exhausted"
       /\ outcome.error.recoverable = "false"
       /\ outcome.error.message =
            <<"[", "DATA", "] ", "all providers failed: ">>
            \o settled["SEC"].error.message \o <<"|">>
            \o settled["FMP"].error.message \o <<"|">>
            \o settled["Finnhub"].error.message
       /\ errors = <<settled["SEC"].error.message, settled["FMP"].error.message,
                     settled["Finnhub"].error.message>>

C4_Witness ==
    /\ \A p \in {"SEC", "FMP", "Finnhub"} : Recoverable(p)
    /\ settled["SEC"].error.reason = "insufficient-data"
    /\ settled["FMP"].error.reason = "quota"
    /\ settled["Finnhub"].error.reason = "network"
    /\ pc = "thrown"

\* C5: every failure inside an adapter reaches the orchestrator as a recoverable
\* ProviderError, so fetchFundamentals raises nothing but "exhausted".
C5_OnlyExhaustedIsRaised ==
    /\ \A p \in {"SEC", "FMP", "Finnhub"} :
           Rejected(p) => settled[p].error.recoverable = "true"
    /\ pc = "thrown" => outcome.error.reason = "exhausted"

(***************************************************************************)
(* Properties of the HTTP helpers (specification SpecHttp).                *)
(***************************************************************************)
Received == http.done /\ http.response.net /\ http.response.read

\* C6: one contract for the three provider families: on a response whose body is
\* empty or parses, 401 and 403 give a recoverable "unauthorized" error and every
\* other status >= 400 except 429 gives a recoverable "http-<status>" error.
C6_SameContractForAllProviders ==
    (Received /\ http.response.text # "nonjson")
    => /\ http.response.status \in {401, 403}
          => /\ ~http.result.ok
             /\ http.result.error.reason = "unauthorized"
             /\ http.result.error.recoverable = "true"
       /\ (http.response.status >= 400 /\ http.response.status \notin {401, 403, 429})
          => /\ ~http.result.ok
             /\ http.result.error.reason = "http-" \o ToString(http.response.status)
             /\ http.result.error.recoverable = "true"

\* C7: a 429 response gives a recoverable "quota" error whatever its body.
C7_QuotaWhateverTheBody ==
    (Received /\ http.response.status = 429)
    => /\ ~http.result.ok
       /\ http.result.error.reason = "quota"
       /\ http.result.error.recoverable = "true"

(***************************************************************************)
(* lib/scoring.ts.  Numbers are exact rationals <<n, d>> with d > 0, kept  *)
(* in lowest terms; NaN == <<0, 0>> stands for NaN and for undefined, which*)
(* Number.isFinite tells apart from no number the code reads.              *)
(***************************************************************************)
NaN == <<0, 0>>

isFinite(x) == x[2] # 0

Abs(n) == IF n < 0 THEN 0 - n ELSE n

RECURSIVE Gcd(_, _)
Gcd(a, b) == IF b = 0 THEN a ELSE Gcd(b, a % b)

Norm(n, d) ==
    IF d = 0 THEN NaN
    ELSE LET g == Gcd(Abs(n), Abs(d))
         IN  IF d < 0 THEN <<(0 - n) \div g, (0 - d) \div g>> ELSE <<n \div g, d \div g>>

Num(n) == <<n, 1>>

\* a + b, a - b, a * b, a / b of JavaScript: NaN in, NaN out.
Add(a, b) == IF isFinite(a) /\ isFinite(b) THEN Norm(a[1] * b[2] + b[1] * a[2], a[2] * b[2]) ELSE NaN
Sub(a, b) == IF isFinite(a) /\ isFinite(b) THEN Norm(a[1] * b[2] - b[1] * a[2], a[2] * b[2]) ELSE NaN
Mul(a, b) == IF isFinite(a) /\ isFinite(b) THEN Norm(a[1] * b[1], a[2] * b[2]) ELSE NaN
Div(a, b) == IF isFinite(a) /\ isFinite(b) THEN Norm(a[1] * b[2], a[2] * b[1]) ELSE NaN

\* a < b, a <= b, a > b, a >= b of JavaScript: false as soon as one side is NaN.
Lt(a, b) == isFinite(a) /\ isFinite(b) /\ a[1] * b[2] < b[1] * a[2]
Le(a, b) == isFinite(a) /\ isFinite(b) /\ a[1] * b[2] <= b[1] * a[2]
Gt(a, b) == Lt(b, a)
Ge(a, b) == Le(b, a)

IsZero(a) == isFinite(a) /\ a[1] = 0

MathMax(a, b) == IF isFinite(a) /\ isFinite(b) THEN (IF Lt(a, b) THEN b ELSE a) ELSE NaN

\* The one element of a singleton {e(x) : x \in {v}}: e with x standing for the
\* value of v, which is worked out once (a const declaration of the source).
The(S) == CHOOSE r \in S : TRUE

\* arr.reduce((a, b) => a + (Number.isFinite(b) ? b : 0), 0), over the first n.
RECURSIVE reduceSum(_, _)
reduceSum(arr, n) ==
    IF n = 0 THEN Num(0)
    ELSE Add(reduceSum(arr, n - 1), IF isFinite(arr[n]) THEN arr[n] ELSE Num(0))

sum(arr) == reduceSum(arr, Len(arr))

\* avg(arr) of line 33, which scoreCompany does not call: the mutant of avgValid
\* (unknown entries count as zero).
avg(arr) == IF Len(arr) > 0 THEN Div(sum(arr), Num(Len(arr))) ELSE Num(0)

avgValid(arr) ==
    LET valid == SelectSeq(arr, isFinite)
    IN  IF Len(valid) > 0 THEN Div(sum(valid), Num(Len(valid))) ELSE NaN

everyFinite(arr) == \A i \in DOMAIN arr : isFinite(arr[i])

safeDiv(a, b) == IF IsZero(b) THEN Num(0) ELSE Div(a, b)

\* Array.prototype.slice(from, to) with 0-based bounds.
Slice(arr, from, to) ==
    IF from >= Len(arr) THEN <<>>
    ELSE SubSeq(arr, from + 1, IF to < Len(arr) THEN to ELSE Len(arr))

\* normalizeShares(series): undo share splits between neighbouring quarters.
RECURSIVE normalizeSharesFrom(_, _, _, _)
normalizeSharesFrom(series, i, factor, prevRaw) ==
    IF i > Len(series) THEN <<>>
    ELSE LET raw == series[i]
         IN  IF ~isFinite(raw) \/ Le(raw, Num(0))
               THEN <<NaN>> \o normalizeSharesFrom(series, i + 1, factor, NaN)
               ELSE LET ratio == Div(prevRaw, raw)
                        f2    == IF isFinite(prevRaw) /\ Gt(prevRaw, Num(0))
                                   THEN IF Gt(ratio, <<9, 2>>) /\ Lt(ratio, <<23, 2>>)
                                          THEN Mul(factor, ratio)
                                        ELSE IF Lt(ratio, <<11, 50>>) /\ Gt(ratio, <<2, 25>>)
                                          THEN Mul(factor, ratio)
                                        ELSE factor
                                   ELSE factor
                    IN  <<Mul(raw, f2)>> \o normalizeSharesFrom(series, i + 1, f2, raw)

normalizeShares(series) == normalizeSharesFrom(series, 1, Num(1), NaN)

(***************************************************************************)
(* Dates, as dayjs reads them in local time: mi is year * 12 + month       *)
(* (January = 0), day the day of the month.  All periods handed to the     *)
(* scoring engine parse (the adapters build them with toISOString).        *)
(***************************************************************************)
Date(year, month, day) == [mi |-> year * 12 + (month - 1), day |-> day]

year(d)    == d.mi \div 12
quarter(d) == ((d.mi % 12) \div 3) + 1

isLeap(y) == (y % 4 = 0) /\ ((y % 100 # 0) \/ (y % 400 = 0))

daysInMonth(mi) ==
    LET m == mi % 12
    IN  IF m = 1 THEN (IF isLeap(mi \div 12) THEN 29 ELSE 28)
        ELSE IF m \in {3, 5, 8, 10} THEN 30 ELSE 31

\* dayjs(...).valueOf(), up to an order-preserving change of scale.
valueOf(d) == d.mi * 32 + d.day

isAfter(a, b) == valueOf(a) > valueOf(b)

\* dayjs(...).endOf("quarter")
endOfQuarter(d) ==
    LET last == d.mi - (d.mi % 3) + 2
    IN  [mi |-> last, day |-> daysInMonth(last)]

\* dayjs(...).subtract(1, "quarter"): three months back, the day clamped to the
\* length of the month reached.
subtractQuarter(d) ==
    LET m == d.mi - 3
    IN  [mi |-> m, day |-> IF d.day < daysInMonth(m) THEN d.day ELSE daysInMonth(m)]

\* toCalendarQuarterLabel(period): the label "<year>Q<quarter>" as a pair.
toCalendarQuarterLabel(period) == <<year(period), quarter(period)>>

\* A Quarter of lib/types.ts; fiscalYear / fiscalQuarter 0 stand for undefined.
Quarter(period, revenue, grossProfit, sga, rnd, ocf, capex, inventory, receivables, cash, totalDebt, dilutedShares, ebitda, netIncome) ==
    [period |-> period, revenue |-> revenue, grossProfit |-> grossProfit, sga |-> sga,
     rnd |-> rnd, ocf |-> ocf, capex |-> capex, inventory |-> inventory,
     receivables |-> receivables, cash |-> cash, totalDebt |-> totalDebt,
     dilutedShares |-> dilutedShares, ebitda |-> ebitda, netIncome |-> netIncome,
     fiscalYear |-> 0, fiscalQuarter |-> 0]

\* The stand-in quarter of a timeline slot no record backs (lines 140-153).
PlaceholderQuarter(cursor) ==
    [Quarter(cursor, NaN, NaN, NaN, NaN, NaN, NaN, NaN, NaN, NaN, NaN, NaN, NaN, NaN)
       EXCEPT !.fiscalYear = year(cursor), !.fiscalQuarter = quarter(cursor)]

\* [...f.quarters].sort((a, b) => valueOf(b.period) - valueOf(a.period)): most
\* recent first; the sort is stable, so equal periods keep their input order.
\* The place of record i in the sorted list: after every later period and
\* after the records of the same period that came before it in the input.
rankDesc(quarters, i) ==
    1 + Cardinality({j \in DOMAIN quarters :
                       \/ valueOf(quarters[j].period) > valueOf(quarters[i].period)
                       \/ (valueOf(quarters[j].period) = valueOf(quarters[i].period) /\ j < i)})

sortByPeriodDesc(quarters) ==
    [at \in DOMAIN quarters |->
        quarters[CHOOSE i \in DOMAIN quarters : rankDesc(quarters, i) = at]]

\* labelMap (lines 123-129) is read through two operators: a label is in the map
\* when some record of base carries it, and it maps to the first such record.
labelMapHas(base, label) ==
    \E i \in DOMAIN base : toCalendarQuarterLabel(base[i].period) = label

labelMapGet(base, label) ==
    base[CHOOSE i \in DOMAIN base :
           /\ toCalendarQuarterLabel(base[i].period) = label
           /\ \A j \in 1 .. i - 1 : toCalendarQuarterLabel(base[j].period) # label]

MAX_TIMELINE == 16

\* One turn of the loop at lines 135-157.
TimelineEntry(base, cursor) ==
    LET label == <<year(cursor), quarter(cursor)>>
    IN  IF labelMapHas(base, label)
          THEN LET existing == labelMapGet(base, label)
               IN  [label |-> label, hasData |-> TRUE,
                    quarter |-> [existing EXCEPT
                       !.fiscalYear = IF existing.fiscalYear # 0 THEN existing.fiscalYear
                                      ELSE year(cursor),
                       !.fiscalQuarter = IF existing.fiscalQuarter # 0
                                           THEN existing.fiscalQuarter
                                         ELSE quarter(cursor)]]
          ELSE [label |-> label, hasData |-> FALSE, quarter |-> PlaceholderQuarter(cursor)]

\* Mutant of buildTimeline: slots without a record are left out.
RECURSIVE buildTimelineCompact(_, _, _)
buildTimelineCompact(base, cursor, i) ==
    IF i >= MAX_TIMELINE THEN <<>>
    ELSE (IF labelMapHas(base, <<year(cursor), quarter(cursor)>>)
            THEN <<TimelineEntry(base, cursor)>> ELSE <<>>)
         \o The({buildTimelineCompact(base, next, i + 1) : next \in {subtractQuarter(cursor)}})

RECURSIVE buildTimeline(_, _, _)
buildTimeline(base, cursor, i) ==
    IF i >= MAX_TIMELINE THEN <<>>
    ELSE <<TimelineEntry(base, cursor)>>
         \o The({buildTimeline(base, next, i + 1) : next \in {subtractQuarter(cursor)}})

(***************************************************************************)
(* scoreCompany.  A pass is "true", "false" or "null".  The function is    *)
(* written as its source is, top to bottom, in five stretches; each hands  *)
(* the next a record of the constants it has computed.                     *)
(***************************************************************************)
Tri(known, value) == IF known THEN (IF value THEN "true" ELSE "false") ELSE "null"

\* arr[i] of JavaScript (0-based): undefined, which no number test accepts,
\* outside the array.
At(arr, i) == IF i + 1 \in DOMAIN arr THEN arr[i + 1] ELSE NaN

Reverse(arr) == [i \in DOMAIN arr |-> arr[Len(arr) + 1 - i]]

countFinite(arr) == Cardinality({i \in DOMAIN arr : isFinite(arr[i])})

ruleKeys ==
    <<"1_growth_cagr", "2_gross_margin_level_trend", "3_ocf_quality", "4_opex_rate",
      "5_yoy_acceleration", "6_val_vs_growth", "7_capacity_without_gm_hit", "8_rd_ratio",
      "9_dilution_governance", "10_fcf_coverage">>

VAL_EBITDA_LIMIT == 25
VAL_FCF_LIMIT == 35
VAL_PEG_LIMIT == 2

\* Lines 114-119: the records the timeline is drawn from.
baseQuarters(f, today) ==
    LET NotFuture(qr) == ~isAfter(qr.period, today)
    IN  The({The({IF Len(usable) >= 4 THEN usable ELSE sorted :
                    usable \in {SelectSeq(sorted, NotFuture)}}) :
               sorted \in {sortByPeriodDesc(f.quarters)}})

\* Lines 120-121: base[0] ?? sorted[0] is base[0], base being sorted itself when
\* it is not usable.
anchorMoment(base, today) == endOfQuarter(IF base # <<>> THEN base[1].period ELSE today)

\* The margin and ratio columns (lines 181-191, 220-235, 334-338, 655-664).
grossMargin(x) ==
    IF isFinite(x.grossProfit) /\ isFinite(x.revenue) /\ ~IsZero(x.revenue)
      THEN safeDiv(x.grossProfit, x.revenue) ELSE NaN

opexRate(x) ==
    IF isFinite(x.revenue) /\ ~IsZero(x.revenue) /\ isFinite(x.sga) /\ isFinite(x.rnd)
      THEN safeDiv(Add(x.sga, x.rnd), x.revenue) ELSE NaN

rdRatio(x) ==
    IF isFinite(x.revenue) /\ ~IsZero(x.revenue) /\ isFinite(x.rnd)
      THEN safeDiv(x.rnd, x.revenue) ELSE NaN

arInv(x) ==
    IF isFinite(x.receivables) /\ isFinite(x.inventory)
      THEN Add(x.receivables, x.inventory) ELSE NaN

\* Lines 244-255: growth of latest4[idx] over the quarter four places later.
yoyOf(timelineQuarters, idx) ==
    IF idx + 4 \notin DOMAIN timelineQuarters THEN NaN
    ELSE LET current == timelineQuarters[idx]
             prev    == timelineQuarters[idx + 4]
         IN  IF ~isFinite(current.revenue) \/ ~isFinite(prev.revenue) \/ IsZero(prev.revenue)
               THEN NaN
               ELSE Sub(safeDiv(current.revenue, prev.revenue), Num(1))

\* First stretch: the slices of the timeline and the per-quarter columns.
columnsOf(timelineQuarters) ==
    LET latest4  == Slice(timelineQuarters, 0, 4)
        earlier4 == Slice(timelineQuarters, 4, 8)
        latest2  == Slice(timelineQuarters, 0, 2)
        earlier2 == Slice(timelineQuarters, 2, 4)
    IN  [latest4         |-> latest4,
         earlier4        |-> earlier4,
         latest2         |-> latest2,
         earlier2        |-> earlier2,
         revenueLatest   |-> [i \in DOMAIN latest4 |-> latest4[i].revenue],
         revenueEarlier  |-> [i \in DOMAIN earlier4 |-> earlier4[i].revenue],
         gmLatest        |-> [i \in DOMAIN latest4 |-> grossMargin(latest4[i])],
         gmQ             |-> [i \in DOMAIN timelineQuarters |-> grossMargin(timelineQuarters[i])],
         ocfValues       |-> [i \in DOMAIN latest4 |-> latest4[i].ocf],
         ocfNear         |-> [i \in DOMAIN latest2 |-> latest2[i].ocf],
         ocfPrev         |-> [i \in DOMAIN earlier2 |-> earlier2[i].ocf],
         opexNear        |-> [i \in DOMAIN latest2 |-> opexRate(latest2[i])],
         opexPrev        |-> [i \in DOMAIN earlier2 |-> opexRate(earlier2[i])],
         yoyRaw          |-> [i \in DOMAIN latest4 |-> yoyOf(timelineQuarters, i)],
         ebitdaValues    |-> [i \in DOMAIN latest4 |-> latest4[i].ebitda],
         capexValues     |-> [i \in DOMAIN latest4 |-> latest4[i].capex],
         rdRatios        |-> [i \in DOMAIN latest4 |-> rdRatio(latest4[i])],
         normalizedDiluted |->
             The({normalizeShares(rawDilutedSeries) :
                    rawDilutedSeries \in {[i \in DOMAIN timelineQuarters |->
                                             timelineQuarters[i].dilutedShares]}}),
         netIncomeLatest |-> [i \in DOMAIN latest4 |-> latest4[i].netIncome],
         netIncomePrev   |-> [i \in DOMAIN earlier4 |-> earlier4[i].netIncome],
         arInvLatest     |-> [i \in DOMAIN latest4 |-> arInv(latest4[i])],
         arInvPrev       |-> [i \in DOMAIN earlier4 |-> arInv(earlier4[i])]]

\* Lines 300-304.
fcfValuesOf(c) ==
    [i \in DOMAIN c.latest4 |->
        IF isFinite(c.ocfValues[i]) /\ isFinite(c.capexValues[i])
          THEN Sub(c.ocfValues[i], c.capexValues[i]) ELSE NaN]

\* Lines 271-282.
enterpriseValueOf(f, c) ==
    LET latestCash == IF c.latest4 # <<>> THEN c.latest4[1].cash ELSE NaN
        latestDebt == IF c.latest4 # <<>> THEN c.latest4[1].totalDebt ELSE NaN
        withDebt   == IF isFinite(latestDebt) THEN Add(f.marketCap, latestDebt) ELSE f.marketCap
    IN  IF isFinite(f.marketCap)
          THEN (IF isFinite(latestCash) THEN Sub(withDebt, latestCash) ELSE withDebt)
          ELSE NaN

\* Second stretch: the sums and averages over the columns.
totalsOf(f, c) ==
    LET hasRevenueLatest  == Len(c.latest4) = 4 /\ everyFinite(c.revenueLatest)
        hasRevenueEarlier == Len(c.earlier4) = 4 /\ everyFinite(c.revenueEarlier)
        hasOcfTotals == Len(c.latest4) = 4 /\ everyFinite(c.ocfValues)
        hasOcfTrend  == /\ Len(c.latest2) = 2 /\ Len(c.earlier2) = 2
                        /\ everyFinite(c.ocfNear) /\ everyFinite(c.ocfPrev)
        hasOpexData  == /\ Len(c.opexNear) = 2 /\ Len(c.opexPrev) = 2
                        /\ everyFinite(c.opexNear) /\ everyFinite(c.opexPrev)
        yoyNear      == Slice(c.yoyRaw, 0, 2)
        yoyPrev      == Slice(c.yoyRaw, 2, 4)
        hasYoyData   == /\ Len(yoyNear) = 2 /\ Len(yoyPrev) = 2
                        /\ everyFinite(yoyNear) /\ everyFinite(yoyPrev)
        ebitdaValid  == SelectSeq(c.ebitdaValues, isFinite)
        fcfValues    == fcfValuesOf(c)
        fcfValid     == SelectSeq(fcfValues, isFinite)
        dilutedLatest == Slice(c.normalizedDiluted, 0, 4)
        dilutedPrev   == Slice(c.normalizedDiluted, 4, 8)
        netIncomeLatestValid == SelectSeq(c.netIncomeLatest, isFinite)
        netIncomePrevValid   == SelectSeq(c.netIncomePrev, isFinite)
    IN  [hasRevenueLatest  |-> hasRevenueLatest,
         hasRevenueEarlier |-> hasRevenueEarlier,
         revL4           |-> IF hasRevenueLatest THEN sum(c.revenueLatest) ELSE NaN,
         revP4           |-> IF hasRevenueEarlier THEN sum(c.revenueEarlier) ELSE NaN,
         gmL4            |-> avgValid(c.gmLatest),
         gmBaseline      |-> avgValid(Slice(c.gmLatest, 1, 4)),
         hasOcfTotals    |-> hasOcfTotals,
         hasOcfTrend     |-> hasOcfTrend,
         ocfL4           |-> IF hasOcfTotals THEN sum(c.ocfValues) ELSE NaN,
         ocfN2           |-> IF hasOcfTrend THEN sum(c.ocfNear) ELSE NaN,
         ocfP2           |-> IF hasOcfTrend THEN sum(c.ocfPrev) ELSE NaN,
         hasOpexData     |-> hasOpexData,
         opexN2          |-> IF hasOpexData THEN avgValid(c.opexNear) ELSE NaN,
         opexP2          |-> IF hasOpexData THEN avgValid(c.opexPrev) ELSE NaN,
         hasYoyData      |-> hasYoyData,
         yoyN2           |-> IF hasYoyData THEN avgValid(yoyNear) ELSE NaN,
         yoyP2           |-> IF hasYoyData THEN avgValid(yoyPrev) ELSE NaN,
         enterpriseValue |-> enterpriseValueOf(f, c),
         ebitdaL4        |-> IF Len(ebitdaValid) > 0 THEN sum(ebitdaValid) ELSE NaN,
         capexBaseline   |-> avgValid(Slice(c.capexValues, 1, 4)),
         fcfValidLength  |-> Len(fcfValid),
         fcfL4           |-> IF Len(fcfValid) > 0 THEN sum(fcfValid) ELSE NaN,
         fcfRevenueDenom |-> sum([i \in DOMAIN c.latest4 |->
                                    IF isFinite(fcfValues[i]) /\ isFinite(c.latest4[i].revenue)
                                      THEN c.latest4[i].revenue ELSE Num(0)]),
         rdRate          |-> avgValid(c.rdRatios),
         dilutedL4       |-> avgValid(dilutedLatest),
         dilutedP4       |-> avgValid(dilutedPrev),
         dilutedCounts   |-> <<countFinite(dilutedLatest), countFinite(dilutedPrev)>>,
         netIncomeL4     |-> IF Len(netIncomeLatestValid) > 0 THEN sum(netIncomeLatestValid)
                             ELSE NaN,
         netIncomePrevL4 |-> IF Len(netIncomePrevValid) > 0 THEN sum(netIncomePrevValid)
                             ELSE NaN]

\* Lines 318-327.
fcfPassOf(t, revenueGrowing, fcfCoverage) ==
    IF t.fcfValidLength >= 2
      THEN IF revenueGrowing
             THEN Tri(isFinite(t.fcfL4), Gt(t.fcfL4, Num(0)))
           ELSE IF isFinite(fcfCoverage)
             THEN Tri(TRUE, Gt(t.fcfL4, Num(0)) \/ Ge(fcfCoverage, <<1, 20>>))
           ELSE Tri(isFinite(t.fcfL4), Gt(t.fcfL4, Num(0)))
      ELSE "null"

\* Third stretch: growth, trends, multiples.
ratiosOf(f, c, t) ==
    LET hasCagrData  == t.hasRevenueLatest /\ t.hasRevenueEarlier /\ Gt(t.revP4, Num(0))
        cagr1y       == IF hasCagrData THEN Sub(safeDiv(t.revL4, t.revP4), Num(1)) ELSE NaN
        gmTrendKnown == isFinite(At(c.gmLatest, 0)) /\ isFinite(t.gmBaseline)
        capexKnown   == isFinite(At(c.capexValues, 0)) /\ isFinite(t.capexBaseline)
        hasFcfData   == t.fcfValidLength >= 3
        fcfCoverage  == IF hasFcfData /\ Gt(t.fcfRevenueDenom, Num(0))
                          THEN Div(t.fcfL4, t.fcfRevenueDenom) ELSE NaN
        revenueGrowing == isFinite(cagr1y) /\ Ge(cagr1y, <<1, 10>>)
        hasDilutionData == /\ isFinite(t.dilutedL4) /\ isFinite(t.dilutedP4)
                           /\ t.dilutedCounts[1] >= 2 /\ t.dilutedCounts[2] >= 2
        dilutionKnown  == hasDilutionData /\ ~IsZero(t.dilutedP4)
        netIncomeGrowth == IF /\ isFinite(t.netIncomeL4) /\ isFinite(t.netIncomePrevL4)
                              /\ Gt(t.netIncomePrevL4, Num(0))
                             THEN Sub(safeDiv(t.netIncomeL4, t.netIncomePrevL4), Num(1))
                             ELSE NaN
        pe           == IF /\ isFinite(f.marketCap) /\ isFinite(t.netIncomeL4)
                           /\ Gt(t.netIncomeL4, Num(0))
                          THEN safeDiv(f.marketCap, t.netIncomeL4) ELSE NaN
    IN  [hasCagrData     |-> hasCagrData,
         cagr1y          |-> cagr1y,
         gmTrend         |-> Tri(gmTrendKnown, Gt(At(c.gmLatest, 0), t.gmBaseline)),
         gmOkForCapex    |-> /\ isFinite(t.gmL4) /\ isFinite(t.gmBaseline)
                             /\ isFinite(At(c.gmQ, 0))
                             /\ Ge(t.gmL4, <<9, 20>>) /\ Ge(At(c.gmQ, 0), t.gmBaseline),
         yoyDelta        |-> IF t.hasYoyData THEN Sub(t.yoyN2, t.yoyP2) ELSE NaN,
         ps              |-> IF t.hasRevenueLatest /\ Gt(t.revL4, Num(0))
                               THEN safeDiv(f.marketCap, t.revL4) ELSE NaN,
         evToEbitda      |-> IF /\ isFinite(t.enterpriseValue) /\ isFinite(t.ebitdaL4)
                                /\ Gt(t.ebitdaL4, Num(0))
                               THEN Div(t.enterpriseValue, t.ebitdaL4) ELSE NaN,
         capexTrend      |-> Tri(capexKnown, Gt(At(c.capexValues, 0), t.capexBaseline)),
         hasFcfData      |-> hasFcfData,
         fcfCoverage     |-> fcfCoverage,
         revenueGrowing  |-> revenueGrowing,
         fcfPass         |-> fcfPassOf(t, revenueGrowing, fcfCoverage),
         evToFcf         |-> IF /\ isFinite(t.enterpriseValue) /\ isFinite(t.fcfL4)
                                /\ Gt(t.fcfL4, Num(0))
                               THEN Div(t.enterpriseValue, t.fcfL4) ELSE NaN,
         dilutionKnown   |-> dilutionKnown,
         dilutionYoY     |-> IF dilutionKnown THEN Sub(Div(t.dilutedL4, t.dilutedP4), Num(1))
                             ELSE NaN,
         netIncomeGrowth |-> netIncomeGrowth,
         pe              |-> pe,
         peg             |-> IF /\ isFinite(pe) /\ isFinite(netIncomeGrowth)
                                /\ Gt(netIncomeGrowth, Num(0))
                               THEN Div(pe, MathMax(netIncomeGrowth, <<1, 20>>)) ELSE NaN]

\* Lines 384-427: the three valuation checks.
valuationChecksOf(r) ==
    <<[key |-> "ev_ebitda", value |-> r.evToEbitda, limit |-> VAL_EBITDA_LIMIT,
       pass |-> Tri(isFinite(r.evToEbitda), Le(r.evToEbitda, Num(VAL_EBITDA_LIMIT)))],
      [key |-> "ev_fcf", value |-> r.evToFcf, limit |-> VAL_FCF_LIMIT,
       pass |-> Tri(isFinite(r.evToFcf), Le(r.evToFcf, Num(VAL_FCF_LIMIT)))],
      [key |-> "peg", value |-> r.peg, limit |-> VAL_PEG_LIMIT,
       pass |-> Tri(isFinite(r.peg), Le(r.peg, Num(VAL_PEG_LIMIT)))]>>

\* A majority rule that takes half of the computable checks for enough: not the
\* rule of the source, which asks for two passing checks.
valuationPassOfHalf(valuationChecks) ==
    LET valuationAvailableCount ==
            Cardinality({i \in DOMAIN valuationChecks : valuationChecks[i].pass # "null"})
        valuationPassCount ==
            Cardinality({i \in DOMAIN valuationChecks : valuationChecks[i].pass = "true"})
    IN  Tri(valuationAvailableCount >= 2, 2 * valuationPassCount >= valuationAvailableCount)

valuationPassOf(valuationChecks) ==
    LET valuationAvailableCount ==
            Cardinality({i \in DOMAIN valuationChecks : valuationChecks[i].pass # "null"})
        valuationPassCount ==
            Cardinality({i \in DOMAIN valuationChecks : valuationChecks[i].pass = "true"})
    IN  Tri(valuationAvailableCount >= 2, valuationPassCount >= 2)

\* The pass of rule 1 with the threshold of its note (line 446, 0.5) in place of
\* its own: not the rule of the source.
cagrPassOfNote(hasCagrData, cagr1y) == Tri(hasCagrData, Ge(cagr1y, <<1, 2>>))

\* Line 445: hasCagrData ? cagr1y >= 0.30 : null.
cagrPassOf(hasCagrData, cagr1y) == Tri(hasCagrData, Ge(cagr1y, <<3, 10>>))

\* Fourth stretch, lines 430-635: the ten rules.  The summary, metrics and note
\* strings are presentation and are left out; every number and every pass is
\* kept.
rulesOf(c, t, r, valuationChecks) ==
    [k \in {ruleKeys[i] : i \in DOMAIN ruleKeys} |->
       CASE k = "1_growth_cagr" ->
              [value |-> r.cagr1y, pass |-> cagrPassOf(r.hasCagrData, r.cagr1y)]
         [] k = "2_gross_margin_level_trend" ->
              [avg |-> t.gmL4, last |-> At(c.gmQ, 0), trend_up |-> r.gmTrend,
               pass |-> Tri(isFinite(t.gmL4) /\ r.gmTrend # "null",
                            Ge(t.gmL4, <<9, 20>>) /\ r.gmTrend = "true")]
         [] k = "3_ocf_quality" ->
              [ocf_ttm |-> t.ocfL4,
               trend_up |-> Tri(isFinite(t.ocfN2) /\ isFinite(t.ocfP2), Gt(t.ocfN2, t.ocfP2)),
               pass |-> Tri(t.hasOcfTotals /\ t.hasOcfTrend,
                            Gt(t.ocfL4, Num(0)) /\ Gt(t.ocfN2, t.ocfP2))]
         [] k = "4_opex_rate" ->
              [near2q |-> t.opexN2, prev2q |-> t.opexP2,
               pass |-> Tri(t.hasOpexData, Lt(t.opexN2, t.opexP2))]
         [] k = "5_yoy_acceleration" ->
              [near2q |-> t.yoyN2, prev2q |-> t.yoyP2, delta |-> r.yoyDelta,
               pass |-> Tri(t.hasYoyData,
                            \/ (Gt(t.yoyN2, <<1, 2>>) /\ Gt(t.yoyP2, <<1, 2>>))
                            \/ Gt(t.yoyN2, Add(t.yoyP2, <<1, 20>>)))]
         [] k = "6_val_vs_growth" ->
              [checks |-> valuationChecks, ev |-> t.enterpriseValue, fcf_ttm |-> t.fcfL4,
               ebitda_ttm |-> t.ebitdaL4, peg |-> r.peg, pe |-> r.pe,
               net_income_growth |-> r.netIncomeGrowth, ps |-> r.ps,
               pass |-> valuationPassOf(valuationChecks)]
         [] k = "7_capacity_without_gm_hit" ->
              [capex_trend |-> r.capexTrend, gm_ok |-> r.gmOkForCapex,
               pass |-> IF r.capexTrend # "null" /\ r.gmOkForCapex THEN r.capexTrend
                        ELSE "null"]
         [] k = "8_rd_ratio" ->
              [value |-> t.rdRate, pass |-> Tri(isFinite(t.rdRate), Ge(t.rdRate, <<3, 20>>))]
         [] k = "9_dilution_governance" ->
              [dilutionYoY |-> r.dilutionYoY, known |-> r.dilutionKnown,
               pass |-> Tri(r.dilutionKnown, Lt(r.dilutionYoY, <<1, 10>>))]
         [] k = "10_fcf_coverage" ->
              [fcf_ttm |-> t.fcfL4, coverage |-> r.fcfCoverage, pass |-> r.fcfPass]]

\* Lines 637-644: one point for each rule whose pass is true (bonus is 0).
basePassOf(rules) == Cardinality({i \in DOMAIN ruleKeys : rules[ruleKeys[i]].pass = "true"})

\* Lines 646-704: the red flags that can be computed.
redFlagsOf(c, t, r) ==
    LET flag1 == /\ isFinite(t.ocfL4) /\ isFinite(t.ocfN2) /\ isFinite(t.ocfP2)
                 /\ Lt(t.ocfL4, Num(0)) /\ Lt(t.ocfN2, t.ocfP2)
        hasArInvData == /\ Len(c.arInvLatest) = 4 /\ Len(c.arInvPrev) = 4
                        /\ everyFinite(c.arInvLatest) /\ everyFinite(c.arInvPrev)
                        /\ t.hasRevenueLatest /\ t.hasRevenueEarlier
        flag2 == /\ hasArInvData
                 /\ isFinite(t.revL4) /\ isFinite(t.revP4)
                 /\ Gt(Sub(sum(c.arInvLatest), sum(c.arInvPrev)), Sub(t.revL4, t.revP4))
        gmYoYDrop == IF Len(c.gmQ) >= 5 /\ isFinite(At(c.gmQ, 0)) /\ isFinite(At(c.gmQ, 4))
                       THEN Sub(At(c.gmQ, 0), At(c.gmQ, 4)) ELSE NaN
        flag3 == isFinite(gmYoYDrop) /\ Le(gmYoYDrop, <<0 - 1, 20>>)
        flag5 == r.dilutionKnown /\ Gt(r.dilutionYoY, <<1, 10>>)
    IN  (IF flag1 THEN <<"ocf negative and weakening">> ELSE <<>>)
        \o (IF flag2 THEN <<"receivables and inventory outgrow revenue">> ELSE <<>>)
        \o (IF flag3 THEN <<"gross margin down 5 points year over year">> ELSE <<>>)
        \o (IF flag5 THEN <<"dilution above 10 percent">> ELSE <<>>)

\* Mutant of ratingOf: the top bucket starts one point late.
ratingOfLate(total) ==
    IF total >= 10 THEN "excellent"
    ELSE IF total >= 7 THEN "good"
    ELSE IF total >= 5 THEN "average"
    ELSE "does not fit"

\* Line 709: the rating of a total.
ratingOf(total) ==
    IF total >= 9 THEN "excellent"
    ELSE IF total >= 7 THEN "good"
    ELSE IF total >= 5 THEN "average"
    ELSE "does not fit"

\* Lines 711-730: the value returned, and with it the timeline the function
\* built on the way (as_of, the wall clock, is left out).
resultOf(f, base, timeline, r, rules, red_flags) ==
    [done |-> TRUE,
     ticker |-> f.ticker,
     rules |-> rules,
     red_flags |-> red_flags,
     base_points |-> basePassOf(rules),
     bonus_points |-> 0,
     total_score |-> basePassOf(rules) + 0,
     rating |-> ratingOf(basePassOf(rules) + 0),
     ps |-> r.ps,
     cagr1y |-> r.cagr1y,
     data_quality |-> [quarters |-> Len(base), has_diluted_shares |-> r.dilutionKnown],
     quarterly_revenue |-> Reverse([i \in DOMAIN Slice(timeline, 0, 8) |->
                                      [label |-> timeline[i].label,
                                       revenue |-> timeline[i].quarter.revenue]]),
     cagr_detail |-> [latest_periods   |-> [i \in DOMAIN Slice(timeline, 0, 4) |->
                                              timeline[i].label],
                      previous_periods |-> [i \in DOMAIN Slice(timeline, 4, 8) |->
                                              Slice(timeline, 4, 8)[i].label]],
     timeline |-> timeline]

\* scoreCompany(f), with dayjs() passed in as today.
scoreRules(f, base, timeline, c, t, r) ==
    The({resultOf(f, base, timeline, r, rules, redFlagsOf(c, t, r)) :
           rules \in {rulesOf(c, t, r, valuationChecksOf(r))}})

scoreColumns(f, base, timeline, c) ==
    The({The({scoreRules(f, base, timeline, c, t, r) : r \in {ratiosOf(f, c, t)}}) :
           t \in {totalsOf(f, c)}})

scoreTimeline(f, base, timeline) ==
    The({scoreColumns(f, base, timeline, c) :
           c \in {columnsOf([i \in DOMAIN timeline |-> timeline[i].quarter])}})

scoreBase(f, today, base) ==
    The({scoreTimeline(f, base, timeline) :
           timeline \in {buildTimeline(base, anchorMoment(base, today), 0)}})

scoreCompany(f, today) ==
    The({scoreBase(f, today, base) : base \in {baseQuarters(f, today)}})

(***************************************************************************)
(* The Fundamentals values scoreCompany is applied to.  Quarter k of a     *)
(* company is the one k quarters before its latest one; a profile says how *)
(* each column behaves along k.                                            *)
(***************************************************************************)
Today     == Date(2025, 2, 15)
LatestEnd == Date(2024, 12, 31)

QuarterCounts == {0, 3, 8, 17, 40}
Shifts        == {0, 1, 5}

\* The period end of quarter k: the last day of a calendar quarter, or the 28th
\* of its first month for a company whose fiscal quarters end off the calendar.
\* shift moves the whole history forward, past today.
PeriodOf(k, shift, fiscal) ==
    LET mi == LatestEnd.mi + 3 * (shift - k)
    IN  IF fiscal THEN [mi |-> mi - 2, day |-> 28] ELSE [mi |-> mi, day |-> daysInMonth(mi)]

Profile(rev, gm, cash, opex, val, shares) ==
    [rev |-> rev, gm |-> gm, cash |-> cash, opex |-> opex, val |-> val, shares |-> shares]

Star    == Profile("accel", "rising", "strong", "falling", "cheap", "flat")
Partial == Profile("grow", "flat", "strong", "rising", "none", "diluted")

Profiles ==
    {Profile(r, g, c, o, v, sh) :
        r \in {"accel", "grow", "flat", "hole"}, g \in {"rising", "flat", "low", "hole"},
        c \in {"strong", "weak", "none"}, o \in {"falling", "rising", "none"},
        v \in {"cheap", "dear", "none"}, sh \in {"flat", "split", "diluted", "none"}}

\* Further valuation profiles.  Net income growing by less than 5% on the year
\* before, level, or falling; a loss; a loss with EV/EBITDA at 20 and EV/FCF at
\* 40; net income multiplied by twelve, at a low and at a high market cap.
Valuations == {"slow", "stalled", "shrinking", "loss", "rich", "boom", "froth"}

\* Further revenue profiles, each over a year before of 40 a quarter (200 for
\* "half", 0 for "new"): year-on-year growth of 55% in the two latest quarters
\* after 50% in the two before; 300 against 200; 52 and 51 against 40; a first
\* year of revenue, 10 a quarter after four quarters at 0.
Growths == {"edge", "half", "thirty", "short", "new"}

RevenueAt(k, p) ==
    IF p.rev = "hole" /\ k = 5 THEN NaN
    ELSE IF p.rev = "flat" THEN Num(40)
    ELSE IF p.rev = "edge" THEN (IF k < 2 THEN Num(62) ELSE IF k < 4 THEN Num(60) ELSE Num(40))
    ELSE IF p.rev = "half" THEN (IF k < 4 THEN Num(300) ELSE Num(200))
    ELSE IF p.rev = "thirty" THEN (IF k < 4 THEN Num(52) ELSE Num(40))
    ELSE IF p.rev = "short" THEN (IF k < 4 THEN Num(51) ELSE Num(40))
    ELSE IF p.rev = "new" THEN (IF k < 4 THEN Num(10) ELSE Num(0))
    ELSE IF p.rev = "grow" THEN (IF k < 4 THEN Num(56) ELSE Num(40))
    ELSE IF k < 2 THEN Num(64) ELSE IF k < 4 THEN Num(48) ELSE Num(40)

QuarterOf(k, p, period) ==
    LET rev == RevenueAt(k, p)
    IN  Quarter(
          period,
          rev,
          \* grossProfit
          IF p.gm = "hole" /\ k = 1 THEN NaN
          ELSE IF p.gm = "low" THEN Mul(rev, <<1, 4>>)
          ELSE IF p.gm = "rising" /\ k = 0 THEN Mul(rev, <<3, 4>>)
          ELSE Mul(rev, <<1, 2>>),
          \* sga
          IF p.opex = "none" THEN NaN
          ELSE IF (p.opex = "falling") = (k < 2) THEN Mul(rev, <<1, 8>>) ELSE Mul(rev, <<1, 4>>),
          \* rnd
          IF p.opex = "none" THEN NaN
          ELSE IF p.opex = "falling" THEN Mul(rev, <<1, 4>>) ELSE Mul(rev, <<1, 10>>),
          \* ocf
          IF p.cash = "none" THEN NaN
          ELSE IF p.cash = "strong" THEN (IF k < 2 THEN Num(12) ELSE Num(8))
          ELSE (IF k < 2 THEN Num(0 - 4) ELSE Num(0 - 2)),
          \* capex
          IF p.cash = "none" THEN NaN
          ELSE IF p.cash = "strong" /\ k = 0 THEN Num(4) ELSE Num(2),
          \* inventory, receivables
          Mul(rev, <<1, 8>>),
          IF p.opex = "rising" THEN rev ELSE Mul(rev, <<1, 8>>),
          \* cash, totalDebt
          IF p.val = "none" THEN NaN ELSE Num(30),
          IF p.val = "none" THEN NaN ELSE Num(20),
          \* dilutedShares
          IF p.shares = "none" THEN NaN
          ELSE IF p.shares = "split" THEN (IF k < 4 THEN Num(100) ELSE Num(10))
          ELSE IF p.shares = "diluted" /\ k < 4 THEN Num(120) ELSE Num(100),
          \* ebitda, netIncome
          IF p.val = "none" THEN NaN ELSE IF p.val = "rich" THEN Num(15) ELSE Num(8),
          IF p.val = "none" THEN NaN
          ELSE IF p.val \in {"loss", "rich"} THEN Num(0 - 1)
          ELSE IF k >= 4 THEN Num(4)
          ELSE IF p.val = "shrinking" THEN Num(3)
          ELSE IF p.val = "stalled" THEN Num(4)
          ELSE IF p.val = "slow" THEN (IF k = 0 THEN <<9, 2>> ELSE Num(4))
          ELSE IF p.val \in {"boom", "froth"} THEN Num(50)
          ELSE Num(6))

MarketCapOf(p) ==
    IF p.val = "none" THEN NaN
    ELSE IF p.val \in {"dear", "froth"} THEN Num(4000)
    ELSE IF p.val = "rich" THEN Num(1210)
    ELSE Num(400)

\* A company with n quarters of history, listed most recent first (as the
\* adapters do) or oldest first; gap leaves quarters 2 and 5 out; dup adds a
\* second record, of other figures, inside the calendar quarter of quarter 1.
Company(n, gap, dup, shift, fiscal, desc, p) ==
    LET ks    == {k \in 0 .. n - 1 : ~(gap /\ k \in {2, 5})}
        asc   == [i \in 1 .. Cardinality(ks) |->
                    CHOOSE k \in ks : Cardinality({j \in ks : j < k}) = i - 1]
        order == IF desc THEN asc ELSE Reverse(asc)
        main  == [i \in DOMAIN order |->
                    QuarterOf(order[i], p, PeriodOf(order[i], shift, fiscal))]
        twin  == LET when == PeriodOf(1, shift, fiscal)
                 IN  [QuarterOf(7, p, [mi |-> when.mi, day |-> 1]) EXCEPT !.revenue = Num(1)]
    IN  [ticker |-> Symbol, marketCap |-> MarketCapOf(p),
         quarters |-> IF dup /\ n > 1 THEN main \o <<twin>> ELSE main]

\* The value the score route falls back to when every provider failed.
Degraded == [ticker |-> Symbol, marketCap |-> NaN, quarters |-> <<>>]

ScoreInputs ==
    {Degraded}
    \cup {Company(n, gap, dup, shift, fiscal, desc, p) :
            n \in QuarterCounts, gap \in BOOLEAN, dup \in BOOLEAN, shift \in Shifts,
            fiscal \in BOOLEAN, desc \in BOOLEAN, p \in {Star, Partial}}
    \cup {Company(n, FALSE, FALSE, 0, FALSE, TRUE, p) : n \in {8, 17}, p \in Profiles}
    \cup {Company(8, FALSE, FALSE, 0, FALSE, TRUE, [p EXCEPT !.val = v]) :
            p \in {Star, Partial, [Star EXCEPT !.cash = "weak"]}, v \in Valuations}
    \cup {Company(n, gap, FALSE, 0, FALSE, TRUE, [Star EXCEPT !.rev = v]) :
            n \in {8, 17}, gap \in BOOLEAN, v \in Growths}

\* scoreCompany is called once on the value drawn.
Score ==
    /\ ~result.done
    /\ result' = scoreCompany(input.f, input.today)
    /\ UNCHANGED <<input, http>>
    /\ UNCHANGED fetchVars

InitScore ==
    /\ env = [ua |-> TRUE, fmp |-> TRUE, fh |-> TRUE]
    /\ secTickerCache = [loaded |-> FALSE, sym |-> FALSE]
    /\ pc = "idle"
    /\ pending = {}
    /\ got = <<>>
    /\ errors = <<>>
    /\ started = <<>>
    /\ settled = [p \in {"SEC", "FMP", "Finnhub"} |-> Unsettled]
    /\ outcome = NoOutcome
    /\ calls = 0
    /\ http = NoExchange
    /\ input \in {[today |-> Today, f |-> f] : f \in ScoreInputs}
    /\ result = NoResult

NextScore == Score

SpecScore == InitScore /\ [][NextScore]_vars

(***************************************************************************)
(* Properties of scoreCompany (specification SpecScore).                   *)
(***************************************************************************)
AllRuleKeys == {ruleKeys[i] : i \in DOMAIN ruleKeys}

C9_TotalAndRating ==
    result.done =>
      LET passed == Cardinality({k \in AllRuleKeys : result.rules[k].pass = "true"})
      IN  /\ result.total_score = passed
          /\ result.total_score \in 0 .. 10
          /\ result.base_points = result.total_score
          /\ result.rating = "excellent"    <=> result.total_score >= 9
          /\ result.rating = "good"         <=> result.total_score \in 7 .. 8
          /\ result.rating = "average"      <=> result.total_score \in 5 .. 6
          /\ result.rating = "does not fit" <=> result.total_score <= 4

\* Nine rules pass, one fails, and a red flag is raised: the rating is still the
\* top one.
C9_Witness ==
    /\ result.done
    /\ result.total_score = 9
    /\ \E k \in AllRuleKeys : result.rules[k].pass = "false"
    /\ result.red_flags # <<>>
    /\ result.rating = "excellent"

PrevLabel(label) == IF label[2] = 1 THEN <<label[1] - 1, 4>> ELSE <<label[1], label[2] - 1>>

Unknown(q) ==
    /\ ~isFinite(q.revenue) /\ ~isFinite(q.grossProfit) /\ ~isFinite(q.sga)
    /\ ~isFinite(q.rnd) /\ ~isFinite(q.ocf) /\ ~isFinite(q.capex)
    /\ ~isFinite(q.inventory) /\ ~isFinite(q.receivables) /\ ~isFinite(q.cash)
    /\ ~isFinite(q.totalDebt) /\ ~isFinite(q.dilutedShares) /\ ~isFinite(q.ebitda)
    /\ ~isFinite(q.netIncome)

\* C10: the timeline has 16 entries; their labels are 16 distinct calendar
\* quarters, the first the anchor's and each next one the quarter just before;
\* an entry with hasData false has every financial field unknown.
C10_TimelineShape ==
    result.done =>
      LET timeline == result.timeline
      IN  /\ Len(timeline) = 16
          /\ timeline[1].label = toCalendarQuarterLabel(
                 anchorMoment(baseQuarters(input.f, input.today), input.today))
          /\ \A i \in 1 .. Len(timeline) - 1 : timeline[i + 1].label = PrevLabel(timeline[i].label)
          /\ \A i, j \in DOMAIN timeline : i # j => timeline[i].label # timeline[j].label
          /\ \A i \in DOMAIN timeline : timeline[i].label[2] \in 1 .. 4
          /\ \A i \in DOMAIN timeline : ~timeline[i].hasData => Unknown(timeline[i].quarter)

\* Forty quarters of history with two quarters missing and one reported twice.
C10_Witness ==
    /\ result.done
    /\ Len(input.f.quarters) > 16
    /\ \E i, j \in DOMAIN input.f.quarters :
          /\ i # j
          /\ toCalendarQuarterLabel(input.f.quarters[i].period)
               = toCalendarQuarterLabel(input.f.quarters[j].period)
    /\ \E i \in DOMAIN result.timeline : ~result.timeline[i].hasData
    /\ \E i \in DOMAIN result.timeline : result.timeline[i].hasData

(***************************************************************************)
(* Properties of the rules of scoreCompany (specification SpecScore).      *)
(***************************************************************************)
\* The input quarters whose period is not after today, and the most recent of a
\* set of input quarters.
NonFuture == {i \in DOMAIN input.f.quarters : ~isAfter(input.f.quarters[i].period, input.today)}

MostRecent(S) ==
    CHOOSE i \in S : \A j \in S :
        valueOf(input.f.quarters[j].period) <= valueOf(input.f.quarters[i].period)

AnchorLabel == result.timeline[1].label

\* C11: the anchor quarter of the timeline is the most recent input quarter whose
\* period is not in the future whenever one exists; the most recent quarter
\* whatever its date is the anchor only when no input quarter is non-future.
C11_AnchorIsLatestNonFuture ==
    (result.done /\ input.f.quarters # <<>>) =>
      AnchorLabel = toCalendarQuarterLabel(
          input.f.quarters[MostRecent(IF NonFuture # {} THEN NonFuture
                                      ELSE DOMAIN input.f.quarters)].period)

\* The latest four quarters of the timeline of the result.
Latest4 == {result.timeline[i].quarter : i \in 1 .. 4}

\* C12: rule 2 is unknown unless all four latest timeline quarters have a finite
\* revenue and grossProfit, and rule 8 is unknown unless all four have a finite
\* revenue and rnd: a missing quarter never gives a pass of true or false.
C12_MissingQuarterIsUnknown ==
    result.done =>
      /\ (\E q \in Latest4 : ~isFinite(q.revenue) \/ ~isFinite(q.grossProfit))
            => result.rules["2_gross_margin_level_trend"].pass = "null"
      /\ (\E q \in Latest4 : ~isFinite(q.revenue) \/ ~isFinite(q.rnd))
            => result.rules["8_rd_ratio"].pass = "null"

\* C13: when the latest capex, the capex baseline and the gross margins are all
\* computable, rule 7 passes exactly when capex is trending up and the margin
\* condition holds, and fails otherwise: its pass is null only when one of
\* them is not computable.
C13_CapacityRule ==
    result.done =>
      LET r7 == result.rules["7_capacity_without_gm_hit"]
          r2 == result.rules["2_gross_margin_level_trend"]
          computable == /\ r7.capex_trend # "null"
                        /\ isFinite(r2.avg) /\ isFinite(r2.last) /\ r2.trend_up # "null"
      IN  computable =>
            r7.pass = IF r7.capex_trend = "true" /\ r7.gm_ok THEN "true" ELSE "false"

\* The number of latest-four timeline quarters whose FCF = OCF - capex can be
\* computed.
FcfQuarters ==
    Cardinality({i \in 1 .. 4 : /\ isFinite(result.timeline[i].quarter.ocf)
                                /\ isFinite(result.timeline[i].quarter.capex)})

\* C14: rule 10 has pass = null unless at least 3 of the latest four quarters
\* have a computable FCF; when it is judged and the trailing revenue CAGR is at
\* least 0.10 it passes iff FCF_TTM > 0, and otherwise it passes iff
\* FCF_TTM > 0 or coverage >= 0.05.
C14_FcfCoverageRule ==
    result.done =>
      LET r10     == result.rules["10_fcf_coverage"]
          growing == Ge(result.cagr1y, <<1, 10>>)
          passes  == IF growing THEN Gt(r10.fcf_ttm, Num(0))
                     ELSE Gt(r10.fcf_ttm, Num(0)) \/ Ge(r10.coverage, <<1, 20>>)
      IN  /\ FcfQuarters < 3 => r10.pass = "null"
          /\ FcfQuarters >= 3 => r10.pass = (IF passes THEN "true" ELSE "false")

\* C15: whenever P/E is computable (market cap known, TTM net income positive)
\* and the net-income YoY growth is computable, PEG is P/E divided by
\* max(growth, 0.05): a growth of zero or less is floored at 0.05.
C15_PegFloor ==
    result.done =>
      LET r6 == result.rules["6_val_vs_growth"]
      IN  (isFinite(r6.pe) /\ isFinite(r6.net_income_growth)) =>
            r6.peg = Div(r6.pe, MathMax(r6.net_income_growth, <<1, 20>>))

\* The valuation checks of rule 6 that are computable, and those that pass
\* (EV/EBITDA <= 25, EV/FCF <= 35, PEG <= 2).
ValuationChecks == result.rules["6_val_vs_growth"].checks

ValuationLimits == <<25, 35, 2>>

Computable == {i \in 1 .. 3 : isFinite(ValuationChecks[i].value)}

Passing == {i \in Computable : Le(ValuationChecks[i].value, Num(ValuationLimits[i]))}

\* C16: rule 6 has pass = null when fewer than 2 of its three checks are
\* computable; otherwise its pass is true iff at least 2 of the computable
\* checks pass, and false otherwise.
C16_ValuationTwoOfAvailable ==
    result.done =>
      /\ ValuationChecks[1].key = "ev_ebitda"
      /\ ValuationChecks[2].key = "ev_fcf"
      /\ ValuationChecks[3].key = "peg"
      /\ result.rules["6_val_vs_growth"].pass =
           IF Cardinality(Computable) < 2 THEN "null"
           ELSE IF Cardinality(Passing) >= 2 THEN "true" ELSE "false"

\* EV/EBITDA = 20 passes, EV/FCF = 40 fails and PEG is unknown (net income is
\* negative): two checks computable, one passing, and the rule fails.
C16_Witness ==
    /\ result.done
    /\ ValuationChecks[1].value = Num(20)
    /\ ValuationChecks[2].value = Num(40)
    /\ Computable = {1, 2}
    /\ Passing = {1}
    /\ result.rules["6_val_vs_growth"].pass = "false"

\* The year-on-year revenue growth of timeline quarter i (1 the latest), and
\* the mean of two numbers.
YoY(i) == Sub(Div(result.timeline[i].quarter.revenue, result.timeline[i + 4].quarter.revenue),
              Num(1))

Mean(a, b) == Div(Add(a, b), Num(2))

\* C17: when the four year-on-year growth figures are computable, rule 5 passes
\* iff the average of the two latest and the average of the two before are both
\* above 0.5, or the first exceeds the second by 0.05 or more: an acceleration
\* of exactly 5 percentage points passes.
C17_AccelerationRule ==
    result.done =>
      LET near  == Mean(YoY(1), YoY(2))
          prior == Mean(YoY(3), YoY(4))
      IN  (\A i \in 1 .. 4 : isFinite(YoY(i))) =>
            result.rules["5_yoy_acceleration"].pass =
              IF \/ (Gt(near, <<1, 2>>) /\ Gt(prior, <<1, 2>>))
                 \/ Ge(Sub(near, prior), <<1, 20>>)
                THEN "true" ELSE "false"

\* The sum of the revenues of timeline quarters from .. from + 3, all finite.
Revenues(from) == [i \in 1 .. 4 |-> result.timeline[from + i - 1].quarter.revenue]

RevenueSum(from) ==
    Add(Add(Revenues(from)[1], Revenues(from)[2]), Add(Revenues(from)[3], Revenues(from)[4]))

EightRevenues == \A i \in 1 .. 8 : isFinite(result.timeline[i].quarter.revenue)

\* C18 as stated: when all eight latest timeline quarters have a finite revenue
\* the value of rule 1 is sum(latest 4) / sum(prior 4) - 1 and its pass is true
\* iff that value is at least 0.30; when one of the eight is unknown the pass
\* is null.
C18_RevenueCagrAsStated ==
    result.done =>
      LET r1    == result.rules["1_growth_cagr"]
          value == Sub(Div(RevenueSum(1), RevenueSum(5)), Num(1))
      IN  /\ EightRevenues =>
               /\ r1.value = value
               /\ r1.pass = (IF Ge(value, <<3, 10>>) THEN "true" ELSE "false")
          /\ ~EightRevenues => r1.pass = "null"

\* C18: when all eight latest timeline quarters have a finite revenue and the
\* prior four sum to more than zero, the value of rule 1 is
\* sum(latest 4) / sum(prior 4) - 1 and its pass is true iff that value is at
\* least 0.30; when the prior four sum to zero or less, or one of the eight
\* revenues is unknown, the value is unknown and the pass is null.
C18_RevenueCagr ==
    result.done =>
      LET r1     == result.rules["1_growth_cagr"]
          value  == Sub(Div(RevenueSum(1), RevenueSum(5)), Num(1))
          judged == EightRevenues /\ Gt(RevenueSum(5), Num(0))
      IN  /\ judged =>
               /\ r1.value = value
               /\ r1.pass = (IF Ge(value, <<3, 10>>) THEN "true" ELSE "false")
          /\ ~judged => (~isFinite(r1.value) /\ r1.pass = "null")

\* Four quarters at 300 after four at 200: the value is 0.50 and the rule
\* passes.
C18_Witness ==
    /\ result.done
    /\ Revenues(1) = <<Num(300), Num(300), Num(300), Num(300)>>
    /\ Revenues(5) = <<Num(200), Num(200), Num(200), Num(200)>>
    /\ result.rules["1_growth_cagr"].value = <<1, 2>>
    /\ result.rules["1_growth_cagr"].pass = "true"

(***************************************************************************)
(* normalizeShares on its own (specification SpecShares): one call on a    *)
(* series of share counts, most recent first.                              *)
(***************************************************************************)
MaxSeries == 4

\* Share counts a quarter may carry: unknown, zero, and counts whose ratios
\* fall inside, outside and near the ends of the two split ranges.
ShareCounts == {NaN, Num(0), Num(1000), Num(9500), Num(9600), Num(12000), Num(4520)}

SeriesOf(n) == [1 .. n -> ShareCounts]

Normalize ==
    /\ ~result.done
    /\ result' = [done |-> TRUE, normalized |-> normalizeShares(input.series)]
    /\ UNCHANGED <<input, http>>
    /\ UNCHANGED fetchVars

InitShares ==
    /\ env = [ua |-> TRUE, fmp |-> TRUE, fh |-> TRUE]
    /\ secTickerCache = [loaded |-> FALSE, sym |-> FALSE]
    /\ pc = "idle"
    /\ pending = {}
    /\ got = <<>>
    /\ errors = <<>>
    /\ started = <<>>
    /\ settled = [p \in {"SEC", "FMP", "Finnhub"} |-> Unsettled]
    /\ outcome = NoOutcome
    /\ calls = 0
    /\ http = NoExchange
    /\ \E n \in 0 .. MaxSeries : input \in {[series |-> s] : s \in SeriesOf(n)}
    /\ result = NoResult

NextShares == Normalize

SpecShares == InitShares /\ [][NextShares]_vars

\* A share count normalizeShares takes into account.
Counted(x) == isFinite(x) /\ Gt(x, Num(0))

\* The split ranges of the claim, for the ratio of the older value to the newer.
InSplitRange(ratio) ==
    \/ (Gt(ratio, <<9, 2>>) /\ Lt(ratio, <<23, 2>>))
    \/ (Gt(ratio, <<2, 25>>) /\ Lt(ratio, <<11, 50>>))

\* a is b to within one per cent.
Approximately(a, b) ==
    /\ isFinite(a)
    /\ Le(Mul(b, <<99, 100>>), a)
    /\ Le(a, Mul(b, <<101, 100>>))

\* C19: between two adjacent counted values the correction factor (normalized
\* over raw) changes exactly when the ratio of the older value to the newer one
\* lies in (4.5, 11.5) or in (0.08, 0.22), and the series
\* [1000, 1000, 9500, 9600] normalizes to about [1000, 1000, 950, 960].
C19_NormalizeShares ==
    (result.done /\ "series" \in DOMAIN input) =>
      LET series     == input.series
          normalized == result.normalized
          factor(i)  == Div(normalized[i], series[i])
      IN  /\ Len(normalized) = Len(series)
          /\ \A i \in 2 .. Len(series) :
                (Counted(series[i - 1]) /\ Counted(series[i])) =>
                   (factor(i) # factor(i - 1) <=> InSplitRange(Div(series[i], series[i - 1])))
          /\ series = <<Num(1000), Num(1000), Num(9500), Num(9600)>> =>
                /\ Approximately(normalized[1], Num(1000))
                /\ Approximately(normalized[2], Num(1000))
                /\ Approximately(normalized[3], Num(950))
                /\ Approximately(normalized[4], Num(960))

(***************************************************************************)
(* applyPatch on its own (specification SpecPatch): a store of quarters    *)
(* keyed by period, in insertion order, and patches merged into it.        *)
(***************************************************************************)
MaxPatches == 2

\* iso of applyPatch when toISODate found no date.
NoIso == [mi |-> 0, day |-> 0]

Isos == {LatestEnd, Date(2024, 9, 30)}

\* byDate.get(iso): the place of the quarter of that period, 0 when absent.
byDateIndex(byDate, iso) ==
    IF \E i \in DOMAIN byDate : byDate[i].period = iso
      THEN CHOOSE i \in DOMAIN byDate : byDate[i].period = iso
      ELSE 0

\* ensureQuarter, as the store it leaves: a quarter of unknowns is appended
\* when the period has none.
ensureQuarter(byDate, iso) ==
    IF byDateIndex(byDate, iso) # 0 THEN byDate
    ELSE Append(byDate,
                Quarter(iso, NaN, NaN, NaN, NaN, NaN, NaN, NaN, NaN, NaN, NaN, NaN, NaN, NaN))

\* A merge that keeps a known field whatever the patch carries (first value
\* wins): not the merge of the source.
mergeFieldKeeping(next, current) ==
    IF isFinite(current) THEN current ELSE IF isFinite(next) THEN next ELSE current

\* A merge that stores whatever the patch carries, unknown included: not the
\* merge of the source.
mergeFieldBlind(next, current) == next

\* A merge that adds a known patch value to a known field: not the merge of the
\* source.
mergeFieldAdding(next, current) ==
    IF isFinite(next) THEN (IF isFinite(current) THEN Add(current, next) ELSE next)
    ELSE current

\* if (patch.x !== undefined && Number.isFinite(patch.x)) quarter.x = patch.x.
mergeField(next, current) == IF isFinite(next) THEN next ELSE current

\* if (patch.fiscalYear !== undefined) quarter.fiscalYear = patch.fiscalYear.
mergeFiscal(next, current) == IF next # 0 THEN next ELSE current

applyPatch(byDate, iso, patch) ==
    IF iso = NoIso THEN byDate
    ELSE LET store == ensureQuarter(byDate, iso)
         IN  [store EXCEPT ![byDateIndex(store, iso)] =
                [@ EXCEPT !.revenue       = mergeField(patch.revenue, @),
                          !.grossProfit   = mergeField(patch.grossProfit, @),
                          !.sga           = mergeField(patch.sga, @),
                          !.rnd           = mergeField(patch.rnd, @),
                          !.ocf           = mergeField(patch.ocf, @),
                          !.capex         = mergeField(patch.capex, @),
                          !.inventory     = mergeField(patch.inventory, @),
                          !.receivables   = mergeField(patch.receivables, @),
                          !.cash          = mergeField(patch.cash, @),
                          !.totalDebt     = mergeField(patch.totalDebt, @),
                          !.dilutedShares = mergeField(patch.dilutedShares, @),
                          !.ebitda        = mergeField(patch.ebitda, @),
                          !.netIncome     = mergeField(patch.netIncome, @),
                          !.fiscalYear    = mergeFiscal(patch.fiscalYear, @),
                          !.fiscalQuarter = mergeFiscal(patch.fiscalQuarter, @)]]

\* The patches of the adapters: the income, cash-flow and balance rows of FMP
\* and the report of Finnhub.  A field a patch leaves out is NaN (0 for the
\* fiscal fields); v and w are the values it carries.
IncomePatch(v, w) ==
    Quarter(NoIso, v, w, v, w, NaN, NaN, NaN, NaN, NaN, NaN, v, w, v)

CashFlowPatch(v, w) ==
    Quarter(NoIso, NaN, NaN, NaN, NaN, v, w, NaN, NaN, NaN, NaN, NaN, NaN, NaN)

BalancePatch(v, w) ==
    Quarter(NoIso, NaN, NaN, NaN, NaN, NaN, NaN, v, w, v, w, NaN, NaN, NaN)

ReportPatch(v, w, fiscal) ==
    [Quarter(NoIso, v, w, v, w, v, w, v, w, v, w, v, w, v)
       EXCEPT !.fiscalYear = IF fiscal THEN 2024 ELSE 0,
              !.fiscalQuarter = IF fiscal THEN 4 ELSE 0]

PatchValues == {<<Num(5), Num(7)>>, <<Num(7), NaN>>, <<NaN, Num(5)>>}

Patches ==
    {IncomePatch(x[1], x[2]) : x \in PatchValues}
    \cup {CashFlowPatch(x[1], x[2]) : x \in PatchValues}
    \cup {BalancePatch(x[1], x[2]) : x \in PatchValues}
    \cup {ReportPatch(x[1], x[2], fiscal) : x \in PatchValues, fiscal \in BOOLEAN}

\* The stores the calls start from: the new Map of an adapter, and one that
\* holds a quarter with every field known.
Stores == {<<>>, applyPatch(<<>>, LatestEnd, ReportPatch(Num(5), Num(7), TRUE))}

\* One call of applyPatch on the store; again records that the call repeats the
\* one before it, start and calls the store the calls began from and the calls
\* made so far.
ApplyPatch ==
    /\ result.applied < MaxPatches
    /\ \E iso \in Isos \cup {NoIso}, patch \in Patches :
          /\ input' = [iso |-> iso, patch |-> patch]
          /\ result' = [done    |-> TRUE,
                        byDate  |-> applyPatch(result.byDate, iso, patch),
                        again   |-> result.done /\ input = [iso |-> iso, patch |-> patch],
                        applied |-> result.applied + 1,
                        start   |-> result.start,
                        calls   |-> Append(result.calls, [iso |-> iso, patch |-> patch])]
    /\ UNCHANGED http
    /\ UNCHANGED fetchVars

InitPatch ==
    /\ env = [ua |-> TRUE, fmp |-> TRUE, fh |-> TRUE]
    /\ secTickerCache = [loaded |-> FALSE, sym |-> FALSE]
    /\ pc = "idle"
    /\ pending = {}
    /\ got = <<>>
    /\ errors = <<>>
    /\ started = <<>>
    /\ settled = [p \in {"SEC", "FMP", "Finnhub"} |-> Unsettled]
    /\ outcome = NoOutcome
    /\ calls = 0
    /\ http = NoExchange
    /\ input = [iso |-> NoIso, patch |-> IncomePatch(NaN, NaN)]
    /\ \E byDate \in Stores :
          result = [done |-> FALSE, byDate |-> byDate, again |-> FALSE, applied |-> 0,
                    start |-> byDate, calls |-> <<>>]

NextPatch == ApplyPatch

SpecPatch == InitPatch /\ [][NextPatch]_vars

\* C20: applyPatch is idempotent: whatever the store was, once a patch has been
\* applied for a period, applying the same patch for the same period again
\* leaves the store exactly as it is.
C20_ApplyPatchIdempotent ==
    (result.done /\ "byDate" \in DOMAIN result) =>
      applyPatch(result.byDate, input.iso, input.patch) = result.byDate

\* The same patch went twice in a row into a quarter the store already held:
\* it carries a known and an unknown value, the quarter has taken the first and
\* keeps the value it had for the second.
C20_Witness ==
    /\ result.done
    /\ "byDate" \in DOMAIN result
    /\ result.again
    /\ input.iso = LatestEnd
    /\ input.patch.revenue = Num(7)
    /\ ~isFinite(input.patch.grossProfit)
    /\ Len(result.byDate) = 1
    /\ result.byDate[1].revenue = Num(7)
    /\ result.byDate[1].grossProfit = Num(7)
    /\ result.byDate[1].ocf = Num(5)

\* The store after the first n calls made.
RECURSIVE StoreAfter(_)
StoreAfter(n) ==
    IF n = 0 THEN result.start
    ELSE applyPatch(StoreAfter(n - 1), result.calls[n].iso, result.calls[n].patch)

NumericFields ==
    {"revenue", "grossProfit", "sga", "rnd", "ocf", "capex", "inventory", "receivables",
     "cash", "totalDebt", "dilutedShares", "ebitda", "netIncome"}

FiscalFields == {"fiscalYear", "fiscalQuarter"}

\* The fields a patch touches: those it carries a value for.
Touched(patch) ==
    {f \in NumericFields : isFinite(patch[f])} \cup {f \in FiscalFields : patch[f] # 0}

\* The last two calls made were for the same period.
SamePeriodTwice ==
    /\ result.done
    /\ "calls" \in DOMAIN result
    /\ Len(result.calls) >= 2
    /\ result.calls[Len(result.calls)].iso # NoIso
    /\ result.calls[Len(result.calls)].iso = result.calls[Len(result.calls) - 1].iso

\* C21: for two applyPatch calls on the same period, patches that touch
\* disjoint fields give the same store in both orders, and a field both patches
\* touch holds the value of the patch applied last.
C21_CommuteOrLastWins ==
    SamePeriodTwice =>
      LET n      == Len(result.calls)
          iso    == result.calls[n].iso
          first  == result.calls[n - 1].patch
          last   == result.calls[n].patch
          before == StoreAfter(n - 2)
          stored == result.byDate[byDateIndex(result.byDate, iso)]
      IN  /\ Touched(first) \cap Touched(last) = {} =>
                result.byDate = applyPatch(applyPatch(before, iso, last), iso, first)
          /\ \A f \in Touched(first) \cap Touched(last) : stored[f] = last[f]

\* Two patches for the same period carry different revenues: the second one's
\* is stored, and the other order would have stored the first one's.
C21_Witness ==
    /\ SamePeriodTwice
    /\ LET n      == Len(result.calls)
           iso    == result.calls[n].iso
           first  == result.calls[n - 1].patch
           last   == result.calls[n].patch
           stored == result.byDate[byDateIndex(result.byDate, iso)]
       IN  /\ first.revenue = Num(5)
           /\ last.revenue = Num(7)
           /\ stored.revenue = Num(7)
           /\ applyPatch(applyPatch(StoreAfter(n - 2), iso, last), iso, first) # result.byDate

(***************************************************************************)
(* The commercial adapters from the rows they receive to the Fundamentals  *)
(* they return: fetchFromFmp and fetchFromFinnhub of lib/fetchers.ts.      *)
(* A row's date is the triple <<year, month, day>> the provider wrote,     *)
(* <<>> when the row has none and <<0, 0, 0>> when it does not parse.      *)
(***************************************************************************)
MaxRows == 9

\* toISODate(value), lines 65-78: null (NoIso) for a missing value and for one
\* dayjs does not parse, the instant the value names otherwise.
toISODate(value) ==
    IF value = <<>> THEN NoIso
    ELSE IF value[2] \in 1 .. 12 /\ value[3] \in 1 .. daysInMonth(value[1] * 12 + value[2] - 1)
      THEN Date(value[1], value[2], value[3])
    ELSE NoIso

\* dayjs(period).isValid()
isValid(period) == period # NoIso

\* finalizeQuarters(byDate), lines 550-555, on the Map's values in insertion
\* order: the parsable periods, most recent first, the first 8.
finalizeStore(byDate) ==
    Slice(sortByPeriodDesc(SelectSeq(byDate, LAMBDA q : isValid(q.period))), 0, 8)

\* The loops over the rows of one statement (lines 599-666, 992-1103): one
\* applyPatch per row, in the order of the response.
RECURSIVE patchRows(_, _, _)
patchRows(byDate, rows, i) ==
    IF i > Len(rows) THEN byDate
    ELSE The({patchRows(next, rows, i + 1) :
                next \in {applyPatch(byDate, toISODate(rows[i].date), rows[i].patch)}})

\* Finnhub keeps the reports whose form is missing or "10-Q" (line 993).
keptReports(reports) == SelectSeq(reports, LAMBDA r : r.form = "" \/ r.form = "10-Q")

\* The end of both adapters (lines 667-677, 1105-1125): the market cap is
\* checked first, then the number of quarters.
adapterResult(provider, marketCap, quarters) ==
    IF ~isFinite(marketCap)
      THEN Thrown(createProviderError(provider, <<"market cap">>, "true", "missing-market-cap"))
    ELSE IF Len(quarters) < 4
      THEN Thrown(createProviderError(provider, <<"fewer than four quarters">>, "true", "insufficient-data"))
    ELSE Ok([marketCap |-> marketCap, quarters |-> quarters])

\* fetchFromFmp after its four downloads: income, cash-flow and balance rows
\* patched in that order, the quote's market cap taken as it is.
fetchFromFmp(income, cashflow, balance, marketCap) ==
    adapterResult("FMP", marketCap,
        finalizeStore(patchRows(patchRows(patchRows(<<>>, income, 1), cashflow, 1), balance, 1)))

\* fetchFromFinnhub after its two downloads: the profile's market cap is in
\* millions (lines 1106-1115).
fetchFromFinnhub(reports, marketCapitalization) ==
    adapterResult("Finnhub", Mul(marketCapitalization, Num(1000000)),
        finalizeStore(patchRows(<<>>, keptReports(reports), 1)))

\* The written date of the end of the k-th latest calendar quarter.
RowDate(k) ==
    LET d == endOfQuarter([mi |-> LatestEnd.mi - 3 * (k - 1), day |-> 1])
    IN  <<year(d), (d.mi % 12) + 1, d.day>>

\* A 52-week fiscal calendar ends the same quarter on a Saturday.
WeekEnd == <<2024, 12, 28>>

Unparsable == <<0, 0, 0>>

\* Row k of a statement of n rows: flaw "date" makes the second row's date
\* unparsable, flaw "form" makes it an annual report, blank is the row
\* without revenue (0 for none).
StatementRow(k, kind, blank, flaw, date) ==
    [date  |-> IF k = 2 /\ flaw = "date" THEN Unparsable ELSE date,
     form  |-> IF k = 2 /\ flaw = "form" THEN "10-K" ELSE "10-Q",
     patch |-> LET v == IF k = blank THEN NaN ELSE Num(100 + k)
               IN  IF kind = "income" THEN IncomePatch(v, Num(40))
                   ELSE IF kind = "cashflow" THEN CashFlowPatch(Num(5), Num(7))
                   ELSE IF kind = "balance" THEN BalancePatch(Num(5), Num(7))
                   ELSE ReportPatch(v, Num(40), FALSE)]

\* The rows of one statement, newest first or oldest first; with weekEnd the
\* newest row carries the week-end date of the quarter.
StatementRows(n, kind, blank, flaw, weekEnd, ascending) ==
    LET rows == [k \in 1 .. n |->
                   StatementRow(k, kind, blank, flaw,
                                IF weekEnd /\ k = 1 THEN WeekEnd ELSE RowDate(k))]
    IN  IF ascending THEN Reverse(rows) ELSE rows

MarketCaps == {NaN, Num(1000)}

Flaws == {"none", "date", "form"}

AdapterInputs ==
    {[provider |-> p, n |-> n, blank |-> b, flaw |-> f, weekEnd |-> w, ascending |-> a,
      marketCap |-> mc] :
        p \in {"FMP", "Finnhub"}, n \in 0 .. MaxRows, b \in {0, 1, 4}, f \in Flaws,
        w \in BOOLEAN, a \in BOOLEAN, mc \in MarketCaps}

\* What the adapter named in the input returns or throws.  FMP dates its
\* cash-flow rows by its own statement; Finnhub sends the week-end report
\* beside the calendar one.
adapt(in) ==
    IF in.provider = "FMP"
      THEN fetchFromFmp(StatementRows(in.n, "income", in.blank, in.flaw, FALSE, in.ascending),
                        StatementRows(in.n, "cashflow", 0, in.flaw, in.weekEnd, in.ascending),
                        StatementRows(in.n, "balance", 0, in.flaw, FALSE, in.ascending),
                        in.marketCap)
      ELSE fetchFromFinnhub(
               StatementRows(in.n, "report", in.blank, in.flaw, FALSE, in.ascending)
                 \o (IF in.weekEnd
                       THEN StatementRows(1, "report", 0, "none", TRUE, FALSE)
                       ELSE <<>>),
               Div(in.marketCap, Num(1000000)))

Adapt ==
    /\ ~result.done
    /\ \E in \in AdapterInputs :
          /\ input' = in
          /\ result' = [done |-> TRUE, out |-> adapt(in)]
    /\ UNCHANGED http
    /\ UNCHANGED fetchVars

AdaptAgain ==
    /\ result.done
    /\ input' = [provider |-> "", n |-> 0, blank |-> 0, flaw |-> "none", weekEnd |-> FALSE,
                 ascending |-> FALSE, marketCap |-> NaN]
    /\ result' = [done |-> FALSE, out |-> Thrown(NoError)]
    /\ UNCHANGED http
    /\ UNCHANGED fetchVars

InitAdapter ==
    /\ env = [ua |-> TRUE, fmp |-> TRUE, fh |-> TRUE]
    /\ secTickerCache = [loaded |-> FALSE, sym |-> FALSE]
    /\ pc = "idle"
    /\ pending = {}
    /\ got = <<>>
    /\ errors = <<>>
    /\ started = <<>>
    /\ settled = [p \in {"SEC", "FMP", "Finnhub"} |-> Unsettled]
    /\ outcome = NoOutcome
    /\ calls = 0
    /\ http = NoExchange
    /\ input = [provider |-> "", n |-> 0, blank |-> 0, flaw |-> "none", weekEnd |-> FALSE,
                ascending |-> FALSE, marketCap |-> NaN]
    /\ result = [done |-> FALSE, out |-> Thrown(NoError)]

NextAdapter == Adapt \/ AdaptAgain

SpecAdapter == InitAdapter /\ [][NextAdapter]_vars

\* The quarters of a returned Fundamentals.
Returned == IF result.done /\ result.out.ok THEN result.out.payload.quarters ELSE <<>>

\* C22: in every Fundamentals value an adapter returns, no two quarters carry
\* the same calendar-quarter label (year and calendar quarter of period), and
\* every period parses as a timestamp.
C22_DistinctLabels ==
    /\ \A i, j \in DOMAIN Returned :
          i # j => toCalendarQuarterLabel(Returned[i].period) # toCalendarQuarterLabel(Returned[j].period)
    /\ \A i \in DOMAIN Returned : isValid(Returned[i].period)

(***************************************************************************)
(* XBRL extraction, lib/fetchers.ts lines 253-434.  A fact is one entry of *)
(* a concept's unit list: form, val, end, start, fy (0 when it is not a    *)
(* number), fp ("" when absent), frame (<<>> when it does not match        *)
(* quarterFrameRegex, else <<year, quarter>>), filed (NoIso when absent)   *)
(* and the unit of the list it stands in.  A quarter key "2024Q2" is the   *)
(* pair <<2024, 2>>, and a Map from keys to data is a function on its keys.*)
(***************************************************************************)
MaxFacts == 3

allowedForms == {"10-Q", "10-Q/A", "10-K", "10-K/A"}

\* normalizeValue(value, unit), lines 253-272.
normalizeValue(value, unit) ==
    IF unit \in {"USDm", "sharesm"} THEN Mul(value, Num(1000000))
    ELSE IF unit = "USDth" THEN Mul(value, Num(1000))
    ELSE value

\* The number of the day of a date, for endDay.diff(startDay, "day").
dayNumber(d) ==
    LET y == year(d)
        m == d.mi % 12
    IN  365 * y + ((y - 1) \div 4) - ((y - 1) \div 100) + ((y - 1) \div 400)
          + <<0, 31, 59, 90, 120, 151, 181, 212, 243, 273, 304, 334>>[m + 1]
          + (IF m >= 2 /\ isLeap(y) THEN 1 ELSE 0) + d.day

\* durationDays (lines 351-352): -1 stands for null.
durationDays(entry) ==
    IF entry.start = NoIso THEN 0 - 1
    ELSE Abs(dayNumber(entry.end) - dayNumber(entry.start))

\* Number(entry.fp.substring(1)) for the fiscal periods "Q0" .. "Q4".
fpNumber(fp) ==
    IF fp = "Q1" THEN 1 ELSE IF fp = "Q2" THEN 2 ELSE IF fp = "Q3" THEN 3
    ELSE IF fp = "Q4" THEN 4 ELSE 0

\* The quarter key of an entry (lines 354-379).
quarterKey(entry) ==
    LET fyear  == IF entry.fy # 0 THEN entry.fy ELSE year(entry.end)
        first  == IF entry.fp \in {"Q0", "Q1", "Q2", "Q3", "Q4"} THEN fpNumber(entry.fp)
                  ELSE IF entry.fp = "FY" \/ entry.form \in {"10-K", "10-K/A"} THEN 4
                  ELSE quarter(entry.end)
    IN  IF first < 1 \/ first > 4
          THEN IF entry.frame # <<>> THEN entry.frame
               ELSE <<fyear, quarter(entry.end)>>
          ELSE <<fyear, first>>

\* The entries the scan does not skip (lines 343-350).
accepted(entry) ==
    /\ entry.form # "" /\ entry.form \in allowedForms
    /\ isFinite(entry.val)
    /\ entry.end # NoIso

\* The QuarterDatum of an entry (lines 381-388).
datumOf(entry) ==
    [value |-> normalizeValue(entry.val, entry.unit),
     end   |-> entry.end,
     filed |-> IF entry.filed # NoIso THEN entry.filed ELSE entry.end,
     start |-> entry.start]

\* updateQuarterDatum with a strict comparison: the first of two facts filed
\* on the same day is kept.
updateQuarterDatumStrict(map, key, datum) ==
    IF key \notin DOMAIN map THEN map @@ (key :> datum)
    ELSE IF valueOf(datum.filed) > valueOf(map[key].filed)
      THEN [map EXCEPT ![key] = datum]
    ELSE map

\* updateQuarterDatum(map, key, datum), lines 292-303.
updateQuarterDatum(map, key, datum) ==
    IF key \notin DOMAIN map THEN map @@ (key :> datum)
    ELSE IF valueOf(datum.filed) >= valueOf(map[key].filed)
      THEN [map EXCEPT ![key] = datum]
    ELSE map

\* The bucket an accepted entry is filed in (lines 390-399).
bucketOf(entry, mode) ==
    IF mode = "instant" THEN "quarter"
    ELSE IF durationDays(entry) # 0 - 1 /\ durationDays(entry) <= 120 THEN "quarter"
    ELSE "ytd"

\* new Map()
EmptyMap == <<>>

\* The scan of the entries (lines 333-403), from entry i on.
RECURSIVE scanFacts(_, _, _, _)
scanFacts(maps, entries, mode, i) ==
    IF i > Len(entries) THEN maps
    ELSE IF ~accepted(entries[i]) THEN scanFacts(maps, entries, mode, i + 1)
    ELSE The({scanFacts(next, entries, mode, i + 1) :
                next \in {IF bucketOf(entries[i], mode) = "quarter"
                            THEN [maps EXCEPT !.quarterValues =
                                    updateQuarterDatum(@, quarterKey(entries[i]), datumOf(entries[i]))]
                            ELSE [maps EXCEPT !.ytdValues =
                                    updateQuarterDatum(@, quarterKey(entries[i]), datumOf(entries[i]))]}})

\* quarterSortAsc on a set of keys (lines 284-289).
RECURSIVE sortKeysAsc(_)
sortKeysAsc(keys) ==
    IF keys = {} THEN <<>>
    ELSE LET least == CHOOSE k \in keys : \A o \in keys : k[1] * 4 + k[2] <= o[1] * 4 + o[2]
         IN  <<least>> \o sortKeysAsc(keys \ {least})

\* ytdValues.get(prevKey) ?? result.get(prevKey) with the two Maps swapped.
prevYtdResolved(ytdValues, resolved, prevKey) ==
    IF prevKey \in DOMAIN resolved THEN <<resolved[prevKey]>>
    ELSE IF prevKey \in DOMAIN ytdValues THEN <<ytdValues[prevKey]>>
    ELSE <<>>

\* ytdValues.get(prevKey) ?? result.get(prevKey), line 420: <<>> for undefined.
prevYtd(ytdValues, resolved, prevKey) ==
    IF prevKey \in DOMAIN ytdValues THEN <<ytdValues[prevKey]>>
    ELSE IF prevKey \in DOMAIN resolved THEN <<resolved[prevKey]>>
    ELSE <<>>

\* One turn of the loop over ytdKeys (lines 411-431).
ytdStep(resolved, ytdValues, key) ==
    IF key \in DOMAIN resolved THEN resolved
    ELSE LET current == ytdValues[key]
             prev    == IF key[2] > 1 THEN prevYtd(ytdValues, resolved, <<key[1], key[2] - 1>>)
                        ELSE <<>>
             quarterValue == IF prev # <<>> THEN Sub(current.value, prev[1].value)
                             ELSE current.value
         IN  resolved @@ (key :> [value |-> quarterValue, end |-> current.end,
                                filed |-> current.filed, start |-> NoIso])

RECURSIVE ytdLoop(_, _, _, _)
ytdLoop(resolved, ytdValues, ytdKeys, i) ==
    IF i > Len(ytdKeys) THEN resolved
    ELSE The({ytdLoop(next, ytdValues, ytdKeys, i + 1) :
                next \in {ytdStep(resolved, ytdValues, ytdKeys[i])}})

\* collectFactSeries(facts, configs, options), lines 325-434, on the entries
\* of the configured concepts in the order the loops visit them.
collectFactSeries(entries, mode) ==
    LET maps == scanFacts([quarterValues |-> EmptyMap, ytdValues |-> EmptyMap], entries, mode, 1)
    IN  IF mode = "instant" THEN maps.quarterValues
        ELSE ytdLoop(maps.quarterValues, maps.ytdValues, sortKeysAsc(DOMAIN maps.ytdValues), 1)

Fact(form, val, unit, end, start, fy, fp, frame, filed) ==
    [form |-> form, val |-> val, unit |-> unit, end |-> end, start |-> start, fy |-> fy,
     fp |-> fp, frame |-> frame, filed |-> filed]

FiledA == Date(2024, 11, 1)
FiledB == Date(2024, 12, 1)

Q1Quarterly   == Fact("10-Q", Num(100), "USD", Date(2024, 3, 31), Date(2024, 1, 1), 2024, "Q1", <<>>, FiledA)
Q1NoStart     == Fact("10-Q", Num(100), "USD", Date(2024, 3, 31), NoIso, 2024, "Q1", <<>>, FiledA)
Q2Quarterly   == Fact("10-Q", Num(150), "USD", Date(2024, 6, 30), Date(2024, 4, 1), 2024, "Q2", <<>>, FiledA)
Q2YearToDate  == Fact("10-Q", Num(250), "USD", Date(2024, 6, 30), Date(2024, 1, 1), 2024, "Q2", <<>>, FiledA)
Q3YearToDate  == Fact("10-Q", Num(400), "USD", Date(2024, 9, 30), Date(2024, 1, 1), 2024, "Q3", <<>>, FiledA)
Q3Quarterly   == Fact("10-Q", Num(150), "USD", Date(2024, 9, 30), Date(2024, 7, 1), 2024, "Q3", <<>>, FiledA)
Q2Amended     == Fact("10-Q/A", <<4, 25>>, "USDth", Date(2024, 6, 30), Date(2024, 4, 1), 2024, "Q2", <<>>, FiledB)
Q2Tied        == Fact("10-Q", Num(170), "USD", Date(2024, 6, 30), Date(2024, 4, 1), 2024, "Q2", <<>>, FiledA)
Q2Comparative == Fact("10-Q", Num(120), "USD", Date(2023, 6, 30), Date(2023, 4, 1), 2024, "Q2", <<>>, FiledA)
Q2YtdTied     == Fact("10-Q", Num(260), "USD", Date(2024, 6, 30), Date(2024, 1, 1), 2024, "Q2", <<>>, FiledA)
Q2Framed      == Fact("10-Q", Num(250), "USD", Date(2024, 6, 30), Date(2024, 1, 1), 2024, "Q0", <<2024, 2>>, FiledB)
Q1Bare        == Fact("10-Q", Num(100), "USD", Date(2024, 3, 31), Date(2024, 1, 1), 0, "", <<>>, NoIso)
CurrentReport == Fact("8-K", Num(999), "USD", Date(2024, 3, 31), Date(2024, 1, 1), 2024, "Q1", <<>>, FiledB)
NotANumber    == Fact("10-Q", NaN, "USD", Date(2024, 6, 30), Date(2024, 4, 1), 2024, "Q2", <<>>, FiledB)

Facts ==
    {Q1Quarterly, Q1NoStart, Q2Quarterly, Q2YearToDate, Q3YearToDate, Q3Quarterly, Q2Amended,
     Q2Tied, Q2Comparative, Q2YtdTied, Q2Framed, Q1Bare, CurrentReport, NotANumber}

Modes == {"instant", "duration"}

\* One more entry in the document, and the extraction run on it.
Extract ==
    /\ Len(input.entries) < MaxFacts
    /\ \E entry \in Facts :
          /\ input' = [input EXCEPT !.entries = Append(@, entry)]
          /\ result' = [done   |-> TRUE,
                        maps   |-> scanFacts([quarterValues |-> EmptyMap, ytdValues |-> EmptyMap],
                                             input'.entries, input.mode, 1),
                        series |-> collectFactSeries(input'.entries, input.mode)]
    /\ UNCHANGED http
    /\ UNCHANGED fetchVars

InitFacts ==
    /\ env = [ua |-> TRUE, fmp |-> TRUE, fh |-> TRUE]
    /\ secTickerCache = [loaded |-> FALSE, sym |-> FALSE]
    /\ pc = "idle"
    /\ pending = {}
    /\ got = <<>>
    /\ errors = <<>>
    /\ started = <<>>
    /\ settled = [p \in {"SEC", "FMP", "Finnhub"} |-> Unsettled]
    /\ outcome = NoOutcome
    /\ calls = 0
    /\ http = NoExchange
    /\ \E mode \in Modes : input = [entries |-> <<>>, mode |-> mode]
    /\ result = [done |-> FALSE, maps |-> [quarterValues |-> EmptyMap, ytdValues |-> EmptyMap],
                 series |-> EmptyMap]

NextFacts == Extract

SpecFacts == InitFacts /\ [][NextFacts]_vars

\* The accepted entries of the document that the scan files under a key of a
\* bucket, by their place in the scan.
Filed(bucket, key) ==
    {i \in DOMAIN input.entries :
        /\ accepted(input.entries[i])
        /\ bucketOf(input.entries[i], input.mode) = bucket
        /\ quarterKey(input.entries[i]) = key}

\* The last of the entries with the greatest filing date.
Latest(S) ==
    CHOOSE i \in S : \A j \in S :
        \/ valueOf(datumOf(input.entries[j]).filed) < valueOf(datumOf(input.entries[i]).filed)
        \/ (valueOf(datumOf(input.entries[j]).filed) = valueOf(datumOf(input.entries[i]).filed) /\ j <= i)

Keys == {quarterKey(entry) : entry \in Facts}

BucketMap(bucket) == IF bucket = "quarter" THEN result.maps.quarterValues ELSE result.maps.ytdValues

\* C24: XBRL extraction is deterministic, and of the accepted facts that fall
\* under one quarter key of one bucket (quarterly or year-to-date) the scan
\* keeps one with the greatest filing date and, among those filed on that
\* date, the one processed last.
C24_LatestFiledLastSeen ==
    /\ result.series = collectFactSeries(input.entries, input.mode)
    /\ \A bucket \in {"quarter", "ytd"}, key \in Keys :
          IF Filed(bucket, key) = {} THEN key \notin DOMAIN BucketMap(bucket)
          ELSE /\ key \in DOMAIN BucketMap(bucket)
               /\ BucketMap(bucket)[key] = datumOf(input.entries[Latest(Filed(bucket, key))])
    /\ \A bucket \in {"quarter", "ytd"} : DOMAIN BucketMap(bucket) \subseteq Keys

C24_Witness ==
    /\ input.entries = <<Q2Amended, Q2Quarterly, Q2Tied>>
    /\ input.mode = "duration"
    /\ Filed("quarter", <<2024, 2>>) = {1, 2, 3}
    /\ result.maps.quarterValues[<<2024, 2>>].value = Num(160)
    /\ collectFactSeries(<<Q2Quarterly, Q2Tied>>, "duration")[<<2024, 2>>].value = Num(170)
    /\ collectFactSeries(<<Q2Tied, Q2Quarterly>>, "duration")[<<2024, 2>>].value = Num(150)

\* The year-to-date facts the scan kept, and the keys resolved from them.
YtdValues == result.maps.ytdValues

QuarterValues == result.maps.quarterValues

Derived == IF input.mode = "duration" THEN DOMAIN YtdValues \ DOMAIN QuarterValues ELSE {}

PrevKey(key) == <<key[1], key[2] - 1>>

\* C25: in duration mode a quarter that has only a year-to-date fact gets
\* YTD(q) minus the cumulative value of the quarter before it, which is that
\* quarter's year-to-date entry if there is one and its resolved quarterly
\* value otherwise; the year-to-date value of Q1 is the Q1 value.  Cumulative
\* 100 (Q1), 250 (Q2), 400 (Q3) give 100, 150, 150.
C25_YearToDateDelta ==
    /\ \A key \in Derived :
          /\ key \in DOMAIN result.series
          /\ key[2] = 1 => result.series[key].value = YtdValues[key].value
          /\ (key[2] > 1 /\ PrevKey(key) \in DOMAIN YtdValues) =>
                result.series[key].value = Sub(YtdValues[key].value, YtdValues[PrevKey(key)].value)
          /\ (key[2] > 1 /\ PrevKey(key) \notin DOMAIN YtdValues /\ PrevKey(key) \in DOMAIN result.series) =>
                result.series[key].value = Sub(YtdValues[key].value, result.series[PrevKey(key)].value)
    /\ ( /\ input.mode = "duration"
         /\ DOMAIN YtdValues \cup DOMAIN QuarterValues = {<<2024, 1>>, <<2024, 2>>, <<2024, 3>>}
         /\ {<<2024, 2>>, <<2024, 3>>} \subseteq Derived
         /\ (IF <<2024, 1>> \in DOMAIN YtdValues THEN YtdValues ELSE QuarterValues)[<<2024, 1>>].value = Num(100)
         /\ YtdValues[<<2024, 2>>].value = Num(250)
         /\ YtdValues[<<2024, 3>>].value = Num(400) )
       => /\ result.series[<<2024, 1>>].value = Num(100)
          /\ result.series[<<2024, 2>>].value = Num(150)
          /\ result.series[<<2024, 3>>].value = Num(150)

C25_Witness ==
    /\ input.mode = "duration"
    /\ input.entries = <<Q3YearToDate, Q1Quarterly, Q2YearToDate>>
    /\ Derived = {<<2024, 2>>, <<2024, 3>>}
    /\ result.series[<<2024, 1>>].value = Num(100)
    /\ result.series[<<2024, 2>>].value = Num(150)
    /\ result.series[<<2024, 3>>].value = Num(150)

\* The output values of Q1 .. Qk of a fiscal year, added up.
RECURSIVE SumThrough(_, _)
SumThrough(fy, k) ==
    IF k = 0 THEN Num(0) ELSE Add(SumThrough(fy, k - 1), result.series[<<fy, k>>].value)

\* C30: in duration mode, for every fiscal year and quarter k that has a
\* year-to-date fact and whose quarters Q1 .. Qk are all in the output, the
\* output values of Q1 .. Qk add up to the year-to-date value reported for Qk.
C30_SumsToYearToDate ==
    input.mode = "duration" =>
       \A key \in DOMAIN YtdValues :
          (\A j \in 1 .. key[2] : <<key[1], j>> \in DOMAIN result.series) =>
             SumThrough(key[1], key[2]) = YtdValues[key].value

(***************************************************************************)
(* fetchFromSec from the company facts to the Fundamentals it returns      *)
(* (lib/fetchers.ts lines 722-978), with the quarters field by field.      *)
(***************************************************************************)
MaxQuarters == 9

\* quarterSortDesc on a set of keys (lines 276-281).
sortKeysDesc(keys) == Reverse(sortKeysAsc(keys))

\* series.get(key)?.value ?? Number.NaN
seriesValue(series, key) == IF key \in DOMAIN series THEN series[key].value ELSE NaN

\* buildQuarterRecords(revenueSeries, metricSeries), lines 436-500.
buildQuarterRecords(revenueSeries, metricSeries) ==
    LET keys  == Slice(sortKeysDesc(DOMAIN revenueSeries), 0, 16)
        kept  == SelectSeq(keys, LAMBDA key : isFinite(revenueSeries[key].value))
        total(key) ==
            LET totalDebtValue      == seriesValue(metricSeries.debtTotal, key)
                currentDebtValue    == seriesValue(metricSeries.debtCurrent, key)
                nonCurrentDebtValue == seriesValue(metricSeries.debtNoncurrent, key)
            IN  IF isFinite(totalDebtValue) THEN totalDebtValue
                ELSE IF isFinite(currentDebtValue) \/ isFinite(nonCurrentDebtValue)
                  THEN Add(IF isFinite(currentDebtValue) THEN currentDebtValue ELSE Num(0),
                           IF isFinite(nonCurrentDebtValue) THEN nonCurrentDebtValue ELSE Num(0))
                ELSE totalDebtValue
    IN  [i \in DOMAIN kept |->
           LET key == kept[i]
           IN  [Quarter(IF revenueSeries[key].end # NoIso THEN revenueSeries[key].end
                        ELSE endOfQuarter(Date(key[1], key[2] * 3, 1)),
                        revenueSeries[key].value,
                        seriesValue(metricSeries.grossProfit, key),
                        seriesValue(metricSeries.sga, key),
                        seriesValue(metricSeries.rnd, key),
                        seriesValue(metricSeries.ocf, key),
                        seriesValue(metricSeries.capex, key),
                        seriesValue(metricSeries.inventory, key),
                        seriesValue(metricSeries.receivables, key),
                        seriesValue(metricSeries.cash, key),
                        total(key),
                        seriesValue(metricSeries.dilutedShares, key),
                        seriesValue(metricSeries.ebitda, key),
                        seriesValue(metricSeries.netIncome, key))
                  EXCEPT !.fiscalYear = key[1], !.fiscalQuarter = key[2]]]

\* validQuarters (lines 906-907).
validQuarters(revenueSeries, metricSeries) ==
    Slice(SelectSeq(Slice(buildQuarterRecords(revenueSeries, metricSeries), 0, 12),
                    LAMBDA item : isFinite(item.revenue)), 0, 12)

\* needsSupplement (lines 912-914), on the quarters themselves.
lacksCashFlow(quarters) ==
    \E i \in DOMAIN quarters : ~isFinite(quarters[i].capex) \/ ~isFinite(quarters[i].ocf)

\* Math.abs on a number of the model.
MathAbs(x) == IF Lt(x, Num(0)) THEN Sub(Num(0), x) ELSE x

\* The back-fill of one field with the test on the SEC value left out.
backfillAlways(own, other) == IF isFinite(other) THEN other ELSE own

\* The back-fill of one field (lines 959-964).
backfill(own, other) == IF ~isFinite(own) /\ isFinite(other) THEN other ELSE own

\* The loop at lines 945-967: finnhubMap keeps, for a calendar-quarter label,
\* the last fallback quarter that carries it.
supplement(quarters, fallback) ==
    LET label(q) == toCalendarQuarterLabel(q.period)
        has(q)   == \E j \in DOMAIN fallback : label(fallback[j]) = label(q)
        get(q)   == fallback[CHOOSE j \in DOMAIN fallback :
                               /\ label(fallback[j]) = label(q)
                               /\ \A l \in DOMAIN fallback : label(fallback[l]) = label(q) => l <= j]
    IN  [i \in DOMAIN quarters |->
           IF has(quarters[i])
             THEN [quarters[i] EXCEPT !.capex = backfill(@, MathAbs(get(quarters[i]).capex)),
                                      !.ocf   = backfill(@, get(quarters[i]).ocf)]
             ELSE quarters[i]]

\* The facts of one concept for the n latest calendar quarters, oldest first:
\* the fact of quarter k (1 the newest) is filed on its end date, and facts
\* whose place is in missing are absent.
ConceptFacts(n, value, missing) ==
    LET fact(k) ==
          LET end == toISODate(RowDate(k))
          IN  Fact("10-Q", value, "USD", end, [mi |-> end.mi - 2, day |-> 1], year(end),
                   <<"Q1", "Q2", "Q3", "Q4">>[quarter(end)], <<>>, end)
    IN  Reverse(SelectSeq([k \in 1 .. n |-> fact(k)],
                          LAMBDA f : \A k \in missing : f.end # toISODate(RowDate(k))))

\* The revenue of the second quarter of 2023 as the 10-Q of the second quarter
\* of 2024 repeats it for comparison: filed with that report, and carrying its
\* fiscal year and period.
Comparative ==
    Fact("10-Q", Num(120), "USD", Date(2023, 6, 30), Date(2023, 4, 1), 2024, "Q2", <<>>,
         Date(2024, 6, 30))

Gaps == {{}, {1}, {1, 2, 3, 4, 5, 6, 7, 8, 9}}

SecInputs ==
    {[n |-> n, comparative |-> c, noOcf |-> o, noCapex |-> x] :
        n \in 7 .. MaxQuarters, c \in {"none", "first", "last"}, o \in Gaps, x \in Gaps}

\* The entries the revenue configuration visits, in order.
RevenueFacts(in) ==
    (IF in.comparative = "first" THEN <<Comparative>> ELSE <<>>)
      \o ConceptFacts(in.n, Num(200), {})
      \o (IF in.comparative = "last" THEN <<Comparative>> ELSE <<>>)

MetricSeries(in) ==
    [grossProfit |-> collectFactSeries(ConceptFacts(in.n, Num(90), {}), "duration"),
     sga |-> EmptyMap, rnd |-> EmptyMap,
     ocf |-> collectFactSeries(ConceptFacts(in.n, Num(30), in.noOcf), "duration"),
     capex |-> collectFactSeries(ConceptFacts(in.n, Num(8), in.noCapex), "duration"),
     inventory |-> EmptyMap, receivables |-> EmptyMap,
     cash |-> collectFactSeries(ConceptFacts(in.n, Num(50), {}), "instant"),
     debtTotal |-> EmptyMap,
     debtCurrent |-> collectFactSeries(ConceptFacts(in.n, Num(3), {}), "instant"),
     debtNoncurrent |-> EmptyMap, dilutedShares |-> EmptyMap, ebitda |-> EmptyMap,
     netIncome |-> EmptyMap]

\* What the supplemental fetchFromFinnhub call can give.
Fallbacks ==
    {fetchFromFinnhub(StatementRows(n, "report", blank, "none", FALSE, FALSE), mc) :
        n \in {3, 8}, blank \in {0, 1}, mc \in {NaN, <<1, 1000>>}}

NoSec == [stage |-> "start", sec |-> <<>>, needs |-> FALSE, marketCap |-> NaN,
          attempted |-> FALSE, fallback |-> Thrown(NoError), out |-> Thrown(NoError)]

\* Lines 722-914: the extraction, up to the request for the profile.
SecExtract ==
    /\ result.stage = "start"
    /\ \E in \in SecInputs :
          LET valid == validQuarters(collectFactSeries(RevenueFacts(in), "duration"), MetricSeries(in))
          IN  /\ input' = in
              /\ result' = IF Len(valid) < 8
                             THEN [result EXCEPT !.stage = "done",
                                      !.out = Thrown(createProviderError("SEC", <<"fewer than eight quarters">>, "true", "insufficient-data"))]
                             ELSE [result EXCEPT !.stage = "profile", !.sec = valid,
                                      !.needs = lacksCashFlow(valid)]
    /\ UNCHANGED http
    /\ UNCHANGED fetchVars

\* Lines 924-934 and 944-946: the profile arrives, or the request fails.
SecMarketCap ==
    /\ result.stage = "profile"
    /\ \E profile \in {Thrown(NoError)} \cup {Ok(mc) : mc \in {NaN, <<1, 1000>>}} :
          result' = IF ~profile.ok
                      THEN [result EXCEPT !.stage = "done",
                               !.out = Thrown(createProviderError("SEC", <<"no market cap from Finnhub">>, "true", "missing-marketcap"))]
                      ELSE [result EXCEPT !.marketCap = Mul(profile.payload, Num(1000000)),
                               !.stage = IF result.needs THEN "fallback" ELSE "return"]
    /\ UNCHANGED input
    /\ UNCHANGED http
    /\ UNCHANGED fetchVars

\* Lines 936-943: the supplemental call settles; a failure is logged.
SecFallback ==
    /\ result.stage = "fallback"
    /\ \E fallback \in Fallbacks :
          result' = [result EXCEPT !.attempted = TRUE, !.fallback = fallback, !.stage = "return"]
    /\ UNCHANGED input
    /\ UNCHANGED http
    /\ UNCHANGED fetchVars

\* Lines 948-977: the market-cap check, the back-fill and the return.
SecReturn ==
    /\ result.stage = "return"
    /\ result' = [result EXCEPT !.stage = "done", !.out =
          IF ~isFinite(result.marketCap)
            THEN Thrown(createProviderError("SEC", <<"no market cap from Finnhub">>, "true", "missing-marketcap"))
          ELSE Ok([marketCap |-> result.marketCap,
                   quarters  |-> IF result.fallback.ok /\ result.needs
                                   THEN supplement(result.sec, result.fallback.payload.quarters)
                                   ELSE result.sec])]
    /\ UNCHANGED input
    /\ UNCHANGED http
    /\ UNCHANGED fetchVars

InitSec ==
    /\ env = [ua |-> TRUE, fmp |-> TRUE, fh |-> TRUE]
    /\ secTickerCache = [loaded |-> FALSE, sym |-> FALSE]
    /\ pc = "idle"
    /\ pending = {}
    /\ got = <<>>
    /\ errors = <<>>
    /\ started = <<>>
    /\ settled = [p \in {"SEC", "FMP", "Finnhub"} |-> Unsettled]
    /\ outcome = NoOutcome
    /\ calls = 0
    /\ http = NoExchange
    /\ input = [n |-> 0, comparative |-> "none", noOcf |-> {}, noCapex |-> {}]
    /\ result = NoSec

NextSec == SecExtract \/ SecMarketCap \/ SecFallback \/ SecReturn

SpecSec == InitSec /\ [][NextSec]_vars

\* The quarters of the Fundamentals fetchFromSec returned.
SecReturned == IF result.stage = "done" /\ result.out.ok THEN result.out.payload.quarters ELSE <<>>

\* C23: in every Fundamentals value an adapter returns the quarters are ordered
\* most recent first by period -- the periods do not increase along the list --
\* the SEC adapter, which orders them by fiscal quarter key, included.
C23_MostRecentFirst ==
    \A i \in DOMAIN SecReturned :
        i + 1 \in DOMAIN SecReturned =>
            valueOf(SecReturned[i].period) >= valueOf(SecReturned[i + 1].period)

\* The periods the rows of the input name, for the adapter that reads them.
Written ==
    LET rows == IF input.provider = "FMP"
                  THEN StatementRows(input.n, "income", input.blank, input.flaw, FALSE, input.ascending)
                         \o StatementRows(input.n, "cashflow", 0, input.flaw, input.weekEnd, input.ascending)
                  ELSE keptReports(StatementRows(input.n, "report", input.blank, input.flaw, FALSE, input.ascending)
                                     \o (IF input.weekEnd
                                           THEN StatementRows(1, "report", 0, "none", TRUE, FALSE)
                                           ELSE <<>>))
    IN  {toISODate(rows[i].date) : i \in DOMAIN rows} \ {NoIso}

\* The returned quarters are the most recent periods, at most 8 of them.
MostRecentEight ==
    /\ Len(Returned) <= 8
    /\ {Returned[i].period : i \in DOMAIN Returned} \subseteq Written
    /\ \A period \in Written :
          \/ \E i \in DOMAIN Returned : Returned[i].period = period
          \/ /\ Len(Returned) = 8
             /\ \A i \in DOMAIN Returned : valueOf(Returned[i].period) > valueOf(period)

\* The adapter failed with a recoverable error of one of the two reasons.
FailedRecoverably ==
    /\ ~result.out.ok
    /\ Truthy(result.out.error.recoverable)
    /\ result.out.error.reason \in {"missing-market-cap", "insufficient-data"}

\* C26: a commercial adapter succeeds only if the market cap is finite and at
\* least 4 of the retained periods are complete (at the least, carry a finite
\* revenue); otherwise it fails with a recoverable missing-market-cap or
\* insufficient-data error; on success it returns at most 8 quarters, the most
\* recent ones.
C26_FourCompletePeriods ==
    result.done =>
       IF result.out.ok
         THEN /\ isFinite(result.out.payload.marketCap)
              /\ Cardinality({i \in DOMAIN Returned : isFinite(Returned[i].revenue)}) >= 4
              /\ MostRecentEight
         ELSE FailedRecoverably

(***************************************************************************)
(* loadSecTickerCache (lib/fetchers.ts lines 27, 195-228) under calls that *)
(* overlap: every call runs to its await in one step and from the          *)
(* response to its return in another, as the event loop schedules them.    *)
(* result.at is where each call stands, result.loads the number of tables  *)
(* downloaded and stored, result.replaced whether a populated cache was    *)
(* assigned again.                                                         *)
(***************************************************************************)
MaxLoads == 3

Loaders == 1 .. MaxLoads

\* Lines 196-201: the cache is returned when it is set; otherwise the user
\* agent is read and the download begins.
LoadStart(p) ==
    /\ result.at[p] = "idle"
    /\ result' = [result EXCEPT !.at[p] = IF secTickerCache.loaded THEN "returned"
                                          ELSE IF ~env.ua THEN "thrown"
                                          ELSE "download"]
    /\ UNCHANGED <<env, secTickerCache, pc, pending, got, errors, started, settled, outcome,
                   calls, input, http>>

\* Lines 198-227: the download settles, the map is built and stored.
LoadSettle(p) ==
    /\ result.at[p] = "download"
    /\ \E r \in Responses(TickerDocs) :
         LET res == fetchJsonWithHeaders(r)
             map == SecTickerMap(res.payload)
         IN  /\ input' = [response |-> r]
             /\ IF ~res.ok \/ ~map.loaded
                  THEN /\ result' = [result EXCEPT !.at[p] = "thrown"]
                       /\ UNCHANGED secTickerCache
                  ELSE /\ secTickerCache' = map
                       /\ result' = [result EXCEPT !.at[p] = "returned",
                                                   !.loads = @ + 1,
                                                   !.replaced = @ \/ secTickerCache.loaded]
    /\ UNCHANGED <<env, pc, pending, got, errors, started, settled, outcome, calls, http>>

InitCache ==
    /\ \E ua \in BOOLEAN : env = [ua |-> ua, fmp |-> TRUE, fh |-> TRUE]
    /\ secTickerCache = [loaded |-> FALSE, sym |-> FALSE]
    /\ pc = "idle"
    /\ pending = {}
    /\ got = <<>>
    /\ errors = <<>>
    /\ started = <<>>
    /\ settled = [p \in {"SEC", "FMP", "Finnhub"} |-> Unsettled]
    /\ outcome = NoOutcome
    /\ calls = 0
    /\ http = NoExchange
    /\ input = [response |-> Response(FALSE, FALSE, 200, "empty", NullDoc)]
    /\ result = [at |-> [p \in Loaders |-> "idle"], loads |-> 0, replaced |-> FALSE]

NextCache == \E p \in Loaders : LoadStart(p) \/ LoadSettle(p)

SpecCache == InitCache /\ [][NextCache]_vars

\* C27: the SEC ticker table is loaded once per process: over any
\* interleaving of calls, also of calls that overlap while a first download
\* is pending, the table is downloaded at most once, and a populated cache is
\* never replaced, modified or cleared.
C27_LoadedOnce ==
    /\ result.loads <= 1
    /\ ~result.replaced

\* C28: in fetchFromSec the supplemental commercial fetch is attempted only
\* when some retained quarter lacks capex or operating cash flow; it changes
\* only the capex and ocf fields of the retained quarters, and only where the
\* SEC value is not finite; its failure does not make fetchFromSec fail: the
\* SEC quarters are returned with the market cap.
C28_SupplementOnlyFillsGaps ==
    /\ result.attempted => lacksCashFlow(result.sec)
    /\ (result.stage = "done" /\ result.out.ok) =>
          /\ Len(SecReturned) = Len(result.sec)
          /\ \A i \in DOMAIN SecReturned :
                /\ [SecReturned[i] EXCEPT !.capex = result.sec[i].capex, !.ocf = result.sec[i].ocf]
                      = result.sec[i]
                /\ isFinite(result.sec[i].capex) => SecReturned[i].capex = result.sec[i].capex
                /\ isFinite(result.sec[i].ocf) => SecReturned[i].ocf = result.sec[i].ocf
    /\ (result.stage = "done" /\ result.attempted /\ ~result.fallback.ok /\ isFinite(result.marketCap)) =>
          /\ result.out.ok
          /\ result.out.payload.marketCap = result.marketCap
          /\ SecReturned = result.sec

C28_Witness ==
    /\ result.stage = "done"
    /\ result.attempted
    /\ result.fallback.ok
    /\ result.out.ok
    /\ input.noOcf = {1}
    /\ input.noCapex = {}
    /\ ~isFinite(result.sec[1].ocf)
    /\ SecReturned[1].ocf = Num(101)
    /\ result.fallback.payload.quarters[2].ocf = Num(102)
    /\ SecReturned[2].ocf = Num(30)
    /\ result.fallback.payload.quarters[1].capex = Num(40)
    /\ SecReturned[1].capex = Num(8)

\* The store before the last applyPatch call, and the call.
StoreBefore == StoreAfter(Len(result.calls) - 1)

LastCall == result.calls[Len(result.calls)]

\* C29: after any sequence of applyPatch calls no record has been removed
\* and no numeric field that held a finite value has become unknown: a patch
\* whose value for a field is absent or not finite leaves the field unchanged,
\* and a call with a null period key changes nothing in the store.
C29_PatchesOnlyAdd ==
    (result.done /\ "calls" \in DOMAIN result /\ Len(result.calls) >= 1) =>
       \A before \in {StoreBefore} :
          /\ Len(result.byDate) >= Len(before)
          /\ \A i \in DOMAIN before :
                /\ result.byDate[i].period = before[i].period
                /\ \A f \in NumericFields :
                      isFinite(before[i][f]) => isFinite(result.byDate[i][f])
                /\ \A f \in NumericFields :
                      (before[i].period # LastCall.iso \/ ~isFinite(LastCall.patch[f])) =>
                          result.byDate[i][f] = before[i][f]
          /\ \A i \in DOMAIN result.byDate \ DOMAIN before :
                \A f \in NumericFields :
                   ~isFinite(LastCall.patch[f]) => ~isFinite(result.byDate[i][f])
          /\ LastCall.iso = NoIso => result.byDate = before

C29_Witness ==
    /\ result.done
    /\ Len(result.calls) = 2
    /\ result.calls[1].iso = NoIso
    /\ StoreAfter(1) = result.start
    /\ Len(result.start) = 1
    /\ LastCall.iso = LatestEnd
    /\ ~isFinite(LastCall.patch.revenue)
    /\ LastCall.patch.grossProfit = Num(5)
    /\ result.byDate[1].revenue = Num(5)
    /\ result.byDate[1].grossProfit = Num(5)
    /\ result.start[1].grossProfit = Num(7)

====
